---- MODULE Spec2Model ----
(***************************************************************************)
(* A model of the calling core of Octopus: the per-region loop of          *)
(* VariantCaller::call (src/src/variant_caller.cpp), the record factory    *)
(* (src/src/core/tools/vcf_record_factory.cpp) and the ploidy checks of    *)
(* TrioCaller (src/src/core/callers/trio_caller.cpp).                      *)
(*                                                                         *)
(* Regions are half-open intervals <<begin, end>> on one contig.           *)
(***************************************************************************)
EXTENDS Integers, Sequences, FiniteSets, TLC

\* ------------------------------------------------------------------ bounds

\* positions of the candidate region are 0 .. RegionLen-1
RegionLen == 3
\* --max-haplotypes of the run
MaxHaplotypes == 4
\* positions a haplotype extends beyond the active region on either side
FlankPad == 1
\* number of samples
NumSamples == 1
\* ploidy of every sample in the record factory
Ploidy == 2
\* positions of the reference window of the record factory are 0 .. FactoryLen-1
FactoryLen == 3
\* most calls handed to the record factory at once
MaxCalls == 3

Positions == 0 .. (RegionLen - 1)
Samples == 1 .. NumSamples

\* ----------------------------------------------------------- region algebra

NoRegion == <<-1, -1>>
Region(b, e) == <<b, e>>
Begin(r) == r[1]
End(r) == r[2]
SetMin(S) == CHOOSE x \in S : \A y \in S : x <= y
SetMax(S) == CHOOSE x \in S : \A y \in S : x >= y
IntMin(a, b) == IF a <= b THEN a ELSE b
IntMax(a, b) == IF a >= b THEN a ELSE b

is_empty(r) == Begin(r) = End(r)
region_size(r) == End(r) - Begin(r)
head_region(r) == Region(Begin(r), Begin(r))
tail_region(r) == Region(End(r), End(r))
begins_before(l, r) == Begin(l) < Begin(r)
ends_before(l, r) == End(l) < End(r)
is_before(l, r) == End(l) <= Begin(r) /\ l # r
is_after(l, r) == End(r) <= Begin(l)
overlap_size(l, r) == IntMin(End(l), End(r)) - IntMax(Begin(l), Begin(r))
overlaps(l, r) ==
    \/ overlap_size(l, r) > 0
    \/ overlap_size(l, r) = 0 /\ (is_empty(l) \/ is_empty(r))
contains(l, r) == Begin(l) <= Begin(r) /\ End(r) <= End(l)
are_adjacent(l, r) == End(l) = Begin(r) \/ End(r) = Begin(l)
left_overhang_region(l, r) ==
    IF begins_before(l, r) THEN Region(Begin(l), Begin(r)) ELSE head_region(l)
right_overhang_region(l, r) ==
    IF ends_before(r, l) THEN Region(End(r), End(l)) ELSE tail_region(l)
overlapped_region(l, r) ==
    Region(IntMax(Begin(l), Begin(r)), IntMin(End(l), End(r)))
encompassing_region(l, r) ==
    Region(IntMin(Begin(l), Begin(r)), IntMax(End(l), End(r)))

\* the region of the SNV candidate at position p
CandidateRegion(p) == Region(p, p + 1)

\* ------------------------------------------------- haplotype generator (C3)
\* HaplotypeGenerator is not part of the sources; it is modelled from the
\* contract of its operations.  A haplotype is the set of candidate sites it
\* spans together with the sites at which it carries the alternative allele.

Root == [sites |-> {}, alts |-> {}]
Restrict(h, I) == [sites |-> h.sites \cap I, alts |-> h.alts \cap I]
Project(tree, I) == {Restrict(h, I) : h \in tree}
TreeSites(tree) == UNION {h.sites : h \in tree}
FirstK(S, k) == {p \in S : Cardinality({q \in S : q < p}) < k}

\* the region returned once the candidates are exhausted
ExhaustedRegion == Region(RegionLen, RegionLen)

\* candidates right of the frontier
NovelAlleles(g) == {p \in g.alleles : p >= g.frontier}

\* indicator_policy: the processed sites kept as left context (none unless lagging)
IndicatorChoices(g) ==
    IF g.lag
    THEN {{s \in TreeSites(g.tree) : s >= t} : t \in TreeSites(g.tree) \cup {RegionLen}}
    ELSE {{}}

\* the novel window is bounded so that 2^|novel| * existing <= max_haplotypes
WithinBudget(g, I, k) == Cardinality(Project(g.tree, I)) * (2 ^ k) <= g.max

Plans(g) ==
    {pl \in {[kind |-> "extend", ind |-> I, nov |-> FirstK(NovelAlleles(g), k)] :
                I \in IndicatorChoices(g), k \in 1 .. Cardinality(NovelAlleles(g))} :
        WithinBudget(g, pl.ind, Cardinality(pl.nov))}

\* what the next progress() may choose; a choice told to the caller is kept
NextPlans(g) ==
    IF g.next # <<>> THEN {g.next[1]}
    ELSE IF NovelAlleles(g) = {} THEN {[kind |-> "exhausted", ind |-> {}, nov |-> {}]}
    ELSE IF Plans(g) = {} THEN {[kind |-> "saturated", ind |-> TreeSites(g.tree), nov |-> {}]}
    ELSE Plans(g)

PlanRegion(g, pl) ==
    CASE pl.kind = "exhausted" -> ExhaustedRegion
      [] pl.kind = "saturated" -> g.active
      [] OTHER -> Region(SetMin(pl.ind \cup pl.nov), SetMax(pl.ind \cup pl.nov) + 1)

\* all combinations of the novel alleles on top of the retained haplotypes
Enumerate(g, pl) ==
    {[sites |-> pl.ind \cup pl.nov, alts |-> e.alts \cup s] :
        e \in Project(g.tree, pl.ind), s \in SUBSET pl.nov}

\* progress(): <<haplotypes, active region, generator afterwards>>
GenProgress(g, pl) ==
    CASE pl.kind = "exhausted" ->
            <<{}, ExhaustedRegion, [g EXCEPT !.next = <<>>]>>
      [] pl.kind = "saturated" ->
            <<g.tree, g.active, [g EXCEPT !.next = <<>>]>>
      [] OTHER ->
            <<Enumerate(g, pl), PlanRegion(g, pl),
              [g EXCEPT !.tree = Enumerate(g, pl),
                        !.frontier = SetMax(pl.nov) + 1,
                        !.active = PlanRegion(g, pl),
                        !.next = <<>>]>>

\* tell_next_active_region(): the choice is remembered for the next progress()
GenTell(g, pl) == [g EXCEPT !.next = <<pl>>]

\* remove(): the haplotypes leave the tree
GenRemove(g, R) ==
    IF R \cap g.tree = {} THEN g
    ELSE [g EXCEPT !.tree = g.tree \ R, !.next = <<>>]

\* uniquely_keep(): only the given haplotypes stay
GenUniquelyKeep(g, K) ==
    IF g.tree \subseteq K THEN g
    ELSE [g EXCEPT !.tree = g.tree \cap K, !.next = <<>>]

\* force_forward(): everything left of the region is committed
GenForceForward(g, r) ==
    [g EXCEPT !.tree = Project(g.tree, {s \in TreeSites(g.tree) : s >= Begin(r)}),
              !.next = <<>>]

\* clear_progress(): the step's haplotypes are dropped, the candidates stay
\* clear_progress() that also rewinds the frontier to the start of the step
GenClearProgressRewound(g) ==
    [g EXCEPT !.tree = {Root}, !.next = <<>>, !.frontier = Begin(g.active)]

GenClearProgress(g) == [g EXCEPT !.tree = {Root}, !.next = <<>>]

\* ---------------------------------------------------- reference alleles
\* An allele is <<begin, end, kind>>, kind 0 for reference sequence and 1 for
\* the alternative sequence of a candidate; alleles sort by region, then kind.

AlleleRegion(a) == Region(a[1], a[2])
AlleleLess(a, b) ==
    \/ a[1] < b[1]
    \/ a[1] = b[1] /\ a[2] < b[2]
    \/ a[1] = b[1] /\ a[2] = b[2] /\ a[3] < b[3]

\* the elements of a set of alleles in increasing order
SortAlleles(S) ==
    LET sort[T \in SUBSET (Int \X Int \X Int)] ==
            [i \in 1 .. Cardinality(T) |->
                CHOOSE x \in T : Cardinality({y \in T : AlleleLess(y, x)}) = i - 1]
    IN sort[S]

make_reference_allele(r) == <<Begin(r), End(r), 0>>
make_positional_reference_alleles(r) ==
    [i \in 1 .. region_size(r) |-> <<Begin(r) + i - 1, Begin(r) + i, 0>>]

\* the candidates (sorted) that overlap a region
copy_overlapped(cands, r) == {p \in cands : overlaps(CandidateRegion(p), r)}

\* reference and alternative allele of every variant, in order; a variant is
\* written by its region
decompose(cands) ==
    SortAlleles({<<Begin(c), End(c), 0>> : c \in cands}
                    \cup {<<Begin(c), End(c), 1>> : c \in cands})

\* the regions of the candidates, overlapping ones joined, as a set
extract_covered_regions(cands) ==
    LET joined(c) ==
            LET reach[n \in Nat] ==
                    IF n = 0 THEN {c}
                    ELSE reach[n - 1] \cup
                         {d \in cands : \E e \in reach[n - 1] : overlaps(d, e)}
                group == reach[Cardinality(cands)]
            IN Region(SetMin({Begin(d) : d \in group}), SetMax({End(d) : d \in group}))
    IN {joined(c) : c \in cands}

\* the maximal stretches of the region that no covered region reaches
UncoveredPositions(covered, r) ==
    {x \in Begin(r) .. (End(r) - 1) : \A c \in covered : ~(Begin(c) <= x /\ x < End(c))}
extract_intervening_regions(covered, r) ==
    LET U == UncoveredPositions(covered, r)
        starts == {x \in U : (x - 1) \notin U}
        stop(x) == SetMin({y \in (x + 1) .. End(r) : y \notin U})
    IN SortAlleles({<<x, stop(x), 0>> : x \in starts})

\* the positional branch of generate_callable_alleles: before a variant allele
\* at most one uncovered stretch is written, and at most one after the last
MergeStates == [variant_alleles : Seq(Int \X Int \X Int),
                uncovered : Seq(Int \X Int \X Int), i : Nat, j : Nat]

PositionalMerge(variant_alleles, uncovered) ==
    LET merge[st \in MergeStates] ==
            LET V == st.variant_alleles
                U == st.uncovered
            IN IF st.i > Len(V)
               THEN IF st.j <= Len(U)
                    THEN make_positional_reference_alleles(AlleleRegion(U[st.j]))
                    ELSE <<>>
               ELSE IF st.j <= Len(U)
                       /\ begins_before(AlleleRegion(U[st.j]), AlleleRegion(V[st.i]))
                    THEN make_positional_reference_alleles(AlleleRegion(U[st.j]))
                           \o <<V[st.i]>>
                           \o merge[[st EXCEPT !.i = st.i + 1, !.j = st.j + 1]]
                    ELSE <<V[st.i]>> \o merge[[st EXCEPT !.i = st.i + 1]]
    IN merge[[variant_alleles |-> variant_alleles, uncovered |-> uncovered,
              i |-> 1, j |-> 1]]

SeqToSet(q) == {q[i] : i \in 1 .. Len(q)}

\* cands: the regions of the candidates, as a set
generate_callable_alleles(r, cands, refcall) ==
    LET overlapped == {c \in cands : overlaps(c, r)}
        variant_alleles == decompose(overlapped)
        uncovered == extract_intervening_regions(extract_covered_regions(overlapped), r)
    IN IF is_empty(r) /\ overlapped = {} THEN <<>>
       ELSE IF overlapped = {}
       THEN CASE refcall = "Positional" -> make_positional_reference_alleles(r)
              [] refcall = "Blocked" -> <<make_reference_allele(r)>>
              [] OTHER -> <<>>
       ELSE IF refcall = "None" THEN variant_alleles
       ELSE IF refcall = "Blocked"
       THEN SortAlleles(SeqToSet(uncovered) \cup SeqToSet(variant_alleles))
       ELSE PositionalMerge(variant_alleles, uncovered)

append_allele(alleles, allele, refcall) ==
    IF refcall = "Blocked" /\ alleles # <<>>
       /\ are_adjacent(AlleleRegion(alleles[Len(alleles)]), AlleleRegion(allele))
    THEN [alleles EXCEPT ![Len(alleles)] =
            <<IntMin(alleles[Len(alleles)][1], allele[1]),
              IntMax(alleles[Len(alleles)][2], allele[2]), 0>>]
    ELSE Append(alleles, allele)

\* first index from i on whose allele is not in the candidate's region
find_next(alleles, i, cand) ==
    SetMin({k \in i .. (Len(alleles) + 1) :
                k = Len(alleles) + 1 \/ AlleleRegion(alleles[k]) # cand})

\* index after the last element from i on that the region contains
EndOfContained(q, i, r) ==
    LET inside == {k \in i .. Len(q) : contains(r, Region(q[k][1], q[k][2]))}
    IN IF inside = {} THEN i ELSE SetMax(inside) + 1

\* the loop of generate_candidate_reference_alleles over the callable alleles
\* A, the called regions C and the candidate regions K
LoopStates == [A : Seq(Int \X Int \X Int), C : Seq(Int \X Int), K : Seq(Int \X Int),
               ai : Nat, ci : Nat, ki : Nat, acc : Seq(Int \X Int \X Int)]

RefAlleleLoop(callable_alleles, called_regions, candidate_regions, refcall) ==
    LET loop[st \in LoopStates] ==
            LET A == st.A
                C == st.C
                K == st.K
                ai == st.ai
                ci == st.ci
                ki == st.ki
                appended == append_allele(st.acc, A[ai], refcall)
            IN IF ai > Len(A) THEN st.acc
               ELSE IF ki > Len(K)
               THEN appended \o SubSeq(A, ai + 1, Len(A))
               ELSE IF ci > Len(C)
               THEN IF begins_before(AlleleRegion(A[ai]), K[ki])
                    THEN loop[[st EXCEPT !.ai = ai + 1, !.acc = appended]]
                    ELSE loop[[st EXCEPT !.ai = find_next(A, ai, K[ki]),
                                         !.ki = ki + 1, !.acc = appended]]
               ELSE IF C[ci] = K[ki]
               THEN IF is_before(AlleleRegion(A[ai]), C[ci])
                    THEN loop[[st EXCEPT !.ai = ai + 1, !.acc = appended]]
                    ELSE loop[[st EXCEPT !.ai = find_next(A, ai, K[ki]),
                                         !.ci = ci + 1, !.ki = ki + 1]]
               ELSE IF begins_before(C[ci], K[ki])
               THEN IF ~overlaps(AlleleRegion(A[ai]), C[ci])
                    THEN loop[[st EXCEPT !.ai = ai + 1, !.acc = appended]]
                    ELSE loop[[st EXCEPT
                               !.ai = EndOfContained(A, ai, C[ci]),
                               !.ci = ci + 1,
                               !.ki = EndOfContained(K, ki, C[ci]),
                               !.acc = IF begins_before(AlleleRegion(A[ai]), C[ci])
                                       THEN append_allele(st.acc,
                                                <<A[ai][1], Begin(C[ci]), A[ai][3]>>,
                                                refcall)
                                       ELSE st.acc]]
               ELSE IF begins_before(AlleleRegion(A[ai]), K[ki])
                    THEN loop[[st EXCEPT !.ai = ai + 1, !.acc = appended]]
                    ELSE loop[[st EXCEPT !.ai = find_next(A, ai, K[ki]),
                                         !.ki = ki + 1, !.acc = appended]]
    IN loop[[A |-> callable_alleles, C |-> called_regions, K |-> candidate_regions,
             ai |-> 1, ci |-> 1, ki |-> 1, acc |-> <<>>]]

\* the regions of a set in increasing order
SortRegions(regions) ==
    LET sorted == SortAlleles({<<Begin(c), End(c), 0>> : c \in regions})
    IN [i \in 1 .. Len(sorted) |-> AlleleRegion(sorted[i])]

\* cands: the regions of the candidates overlapping the region; called_regions:
\* the covered regions of the variant calls made of them
generate_candidate_reference_alleles(r, cands, called_regions, refcall) ==
    LET callable_alleles == generate_callable_alleles(r, cands, refcall)
    IN IF callable_alleles = <<>> \/ refcall = "None" THEN <<>>
       ELSE IF cands = {} THEN callable_alleles
       ELSE RefAlleleLoop(callable_alleles, SortRegions(called_regions),
                          SortRegions(cands), refcall)

\* ------------------------------------------------------ VariantCaller::call

VARIABLES
    pc,                 \* position in the body of call()
    refcall_type,       \* "None", "Positional" or "Blocked"
    lag_haplotype_generation,
    max_haplotypes,
    requires_reads,     \* candidate_generator_.requires_reads()
    reads_empty,        \* all_empty(reads)
    candidate_source,   \* the variants the candidate generator would find
    call_region,
    candidate_region,
    candidates,
    generator,
    haplotypes,
    active_region,
    haplotype_likelihoods,
    caller_latents,
    phase_set,
    unphased_active_region,
    next_active_region,
    result,
    \* TrioCaller
    maternal_ploidy,
    paternal_ploidy,
    child_ploidy,
    trio_max_ploidy,    \* model::TrioModel::max_ploidy()
    trio_pc,
    \* VcfRecordFactory
    factory_pc,
    phase_regions,      \* Phaser::PhaseSet::phase_regions, per sample
    wrapped_calls,      \* the std::vector<CallWrapper> handed to make()
    vcf_records,
    factory_error,      \* the InconsistentCallError thrown by make()
    \* generate_candidate_reference_alleles on its own
    ref_pc,
    ref_type,           \* refcall_type_
    ref_region,         \* the uncalled region
    ref_candidates,     \* the regions of the candidates overlapping it
    ref_called,         \* the covered regions of the variant calls
    ref_alleles,
    \* the FORMAT block of VcfRecordFactory::make on its own
    fmt_pc,
    sites_only,         \* sites_only_
    fmt_phase,          \* the Call::PhaseCall region of every sample, or NoRegion
    fmt_record,
    \* TrioCaller::call_variants, run with two thresholds on the same latents
    tc_pc,
    trio_posteriors,        \* latents.model_latents.posteriors.joint_genotype_probabilities
    min_variant_posterior,  \* parameters_.min_variant_posterior
    lower_variant_posterior,
    min_denovo_posterior,   \* parameters_.min_denovo_posterior
    tc_calls,               \* the calls made with min_variant_posterior
    tc_calls_lower,         \* the calls made with lower_variant_posterior
    cancel_requested,       \* a cancellation of call() has been requested
    main_pc,                \* position in main()
    argv,                   \* the options given on the command line
    options,                \* the boost::optional<po::variables_map> of main()
    run_outcome,            \* how run_octopus() ended, if it was called
    exit_code,              \* the value main() returns
    phred_pc,               \* position in the use of a Phred<double>
    phred_input,            \* the operation applied and its argument
    phred_thrown,           \* the exception the operation threw, or "none"
    score_,                 \* Phred::score_ of the object obtained, if any
    rm_pc,                  \* position in lines 558-571 of call()
    haplotype_posteriors,   \* the posterior of every haplotype, in units of 1e-16
    next_has_passed,        \* has_passed() of the first next active region
    generator_calls,        \* the calls made on the generator, in order
    pending,                \* candidates of processed active regions not emitted yet
    \* calculate_flank_regions
    flank_pc,
    flank_haplotype_region,
    flank_active_region,
    flank_candidates,       \* the regions of the candidates, in order
    flanks,                 \* the flank regions and the candidate ranges behind them
    \* Downsampler
    ds_pc,
    trigger_coverage_,
    target_coverage_,
    input_reads,            \* the reads handed to downsample(), by their regions
    reads,                  \* the ReadContainer
    targets,
    target_index,           \* the target being sampled; the targets are taken in reverse
    sample_reads,           \* the vector of ReadWrapper of the sampling loop
    first_unsampled,
    last_unsampled,
    required_coverage,
    num_iterations,         \* iterations of the sampling loop for this target
    sampled_read_blocks,
    unsampled_read_blocks,
    \* call_trio
    ct_germline_calls,
    ct_denovo_calls,
    called_trio

callVars == <<pc, refcall_type, lag_haplotype_generation, max_haplotypes,
              requires_reads, reads_empty, candidate_source, call_region,
              candidate_region, candidates, generator, haplotypes, active_region,
              haplotype_likelihoods, caller_latents, phase_set,
              unphased_active_region, next_active_region, result>>
trioVars == <<maternal_ploidy, paternal_ploidy, child_ploidy, trio_max_ploidy, trio_pc>>
factoryVars == <<factory_pc, phase_regions, wrapped_calls, vcf_records, factory_error>>
refVars == <<ref_pc, ref_type, ref_region, ref_candidates, ref_called, ref_alleles>>
fmtVars == <<fmt_pc, sites_only, fmt_phase, fmt_record>>
tcVars == <<tc_pc, trio_posteriors, min_variant_posterior, lower_variant_posterior,
            min_denovo_posterior, tc_calls, tc_calls_lower>>
cancelVars == <<cancel_requested>>
mainVars == <<main_pc, argv, options, run_outcome, exit_code>>
phredVars == <<phred_pc, phred_input, phred_thrown, score_>>
removeVars == <<rm_pc, haplotype_posteriors, next_has_passed, generator_calls>>
pendingVars == <<pending>>
flankVars == <<flank_pc, flank_haplotype_region, flank_active_region, flank_candidates, flanks>>
dsVars == <<ds_pc, trigger_coverage_, target_coverage_, input_reads, reads, targets, target_index, sample_reads, first_unsampled, last_unsampled, required_coverage, num_iterations, sampled_read_blocks, unsampled_read_blocks>>
ctVars == <<ct_germline_calls, ct_denovo_calls, called_trio>>
auxVars == <<refVars, fmtVars, tcVars, cancelVars, mainVars, phredVars, removeVars, pendingVars, flankVars, dsVars, ctVars>>
vars == <<callVars, trioVars, factoryVars, auxVars>>

\* the values of the variables of a component that is not running
TrioIdle ==
    /\ maternal_ploidy = 0
    /\ paternal_ploidy = 0
    /\ child_ploidy = 0
    /\ trio_max_ploidy = 0
    /\ trio_pc = "idle"
CallIdle ==
    /\ pc = "idle"
    /\ refcall_type = "None"
    /\ lag_haplotype_generation = FALSE
    /\ max_haplotypes = 0
    /\ requires_reads = FALSE
    /\ reads_empty = FALSE
    /\ candidate_source = {}
    /\ call_region = NoRegion
    /\ candidate_region = NoRegion
    /\ candidates = {}
    /\ generator = [alleles |-> {}, tree |-> {Root}, frontier |-> 0, active |-> NoRegion,
                    next |-> <<>>, max |-> 0, lag |-> FALSE]
    /\ haplotypes = {}
    /\ active_region = NoRegion
    /\ haplotype_likelihoods = {}
    /\ caller_latents = [called |-> {}]
    /\ phase_set = NoRegion
    /\ unphased_active_region = NoRegion
    /\ next_active_region = NoRegion
    /\ result = <<>>
FactoryIdle ==
    /\ factory_pc = "idle"
    /\ phase_regions = <<>>
    /\ wrapped_calls = <<>>
    /\ vcf_records = <<>>
    /\ factory_error = [sample |-> 0, first |-> <<>>, second |-> <<>>]
RefIdle ==
    /\ ref_pc = "idle"
    /\ ref_type = "None"
    /\ ref_region = NoRegion
    /\ ref_candidates = {}
    /\ ref_called = {}
    /\ ref_alleles = <<>>
FmtIdle ==
    /\ fmt_pc = "idle"
    /\ sites_only = FALSE
    /\ fmt_phase = <<>>
    /\ fmt_record = [format |-> <<>>, samples |-> <<>>]
TcIdle ==
    /\ tc_pc = "idle"
    /\ trio_posteriors = <<>>
    /\ min_variant_posterior = 0
    /\ lower_variant_posterior = 0
    /\ min_denovo_posterior = 0
    /\ tc_calls = {}
    /\ tc_calls_lower = {}
CancelIdle == cancel_requested = FALSE
MainIdle ==
    /\ main_pc = "idle"
    /\ argv = [given |-> {}, caller |-> "population"]
    /\ options = [parsed |-> FALSE, count |-> {}, caller |-> ""]
    /\ run_outcome = "not started"
    /\ exit_code = 0
PhredIdle ==
    /\ phred_pc = "idle"
    /\ phred_input = [op |-> "none", arg |-> [kind |-> "finite", v |-> 0]]
    /\ phred_thrown = "none"
    /\ score_ = [kind |-> "finite", v |-> 0]
RemoveIdle ==
    /\ rm_pc = "idle"
    /\ haplotype_posteriors = <<>>
    /\ next_has_passed = FALSE
    /\ generator_calls = <<>>
PendingIdle == pending = {}
NoFlanks ==
    [lhs_flank |-> NoRegion, rhs_flank |-> NoRegion, active_candidates |-> <<>>,
     lhs_inactive_candidates |-> <<>>, rhs_inactive_candidates |-> <<>>]
FlankIdle ==
    /\ flank_pc = "idle"
    /\ flank_haplotype_region = NoRegion
    /\ flank_active_region = NoRegion
    /\ flank_candidates = <<>>
    /\ flanks = NoFlanks
DsIdle ==
    /\ ds_pc = "idle"
    /\ trigger_coverage_ = 0
    /\ target_coverage_ = 0
    /\ input_reads = <<>>
    /\ reads = <<>>
    /\ targets = <<>>
    /\ target_index = 0
    /\ sample_reads = <<>>
    /\ first_unsampled = 0
    /\ last_unsampled = 0
    /\ required_coverage = <<>>
    /\ num_iterations = 0
    /\ sampled_read_blocks = <<>>
    /\ unsampled_read_blocks = <<>>
NoTrio == [maternal |-> <<>>, paternal |-> <<>>, child |-> <<>>, probability |-> 0]
CtIdle ==
    /\ ct_germline_calls = {}
    /\ ct_denovo_calls = {}
    /\ called_trio = NoTrio
AuxIdle == RefIdle /\ FmtIdle /\ TcIdle /\ CancelIdle /\ MainIdle /\ PhredIdle /\ RemoveIdle /\ PendingIdle /\ FlankIdle /\ DsIdle /\ CtIdle

RefCallTypes == {"None", "Positional", "Blocked"}

NoGenerator == [alleles |-> {}, tree |-> {Root}, frontier |-> 0, active |-> NoRegion,
                next |-> <<>>, max |-> 0, lag |-> FALSE]
NoLatents == [called |-> {}]

refcalls_requested == refcall_type # "None"

\* reads, when there are any, span the whole window
calculate_candidate_region(region, needs_reads, no_reads) ==
    IF ~needs_reads THEN region
    ELSE IF no_reads THEN region
    ELSE encompassing_region(region, Region(0, RegionLen))

generate_candidates(source, region) == copy_overlapped(source, region)

\* a generator opened with twice the caller's limit
NewGeneratorDoubleLimit(region, cands, limit, lag) ==
    [alleles |-> cands, tree |-> {Root}, frontier |-> Begin(region),
     active |-> head_region(region), next |-> <<>>, max |-> 2 * limit, lag |-> lag]

NewGenerator(region, cands, limit, lag) ==
    [alleles |-> cands, tree |-> {Root}, frontier |-> Begin(region),
     active |-> head_region(region), next |-> <<>>, max |-> limit, lag |-> lag]

\* the haplotypes extend the active region by the flank padding
haplotype_region(active) ==
    Region(IntMax(0, Begin(active) - FlankPad), IntMin(RegionLen, End(active) + FlankPad))

remove_passed_candidates(cands, cand_region, hap_region) ==
    IF begins_before(cand_region, hap_region)
    THEN cands \ copy_overlapped(cands, left_overhang_region(cand_region, hap_region))
    ELSE cands

has_passed(next, active) == is_after(next, active) /\ active # next

\* a loop that is never left
LoopExitNever(active, haps, region) == FALSE

LoopExit(active, haps, region) == is_after(active, region) \/ haps = {}

\* likelihood cache: the haplotypes that have entries
populate(haps) == haps
erase(cache, removed) == cache \ removed
clear(cache) == {}

\* the haplotypes the filter may remove so that at most n stay: none, one, or,
\* when all tie at the cut, every one of them
filter_to_n_haplotypes(haps, n) ==
    {R \in {{}, haps} \cup {{h} : h \in haps} : Cardinality(haps \ R) <= n}

\* latents: the candidates whose posterior passes the calling threshold
InferLatents(haps, cands) == {[called |-> c] : c \in SUBSET cands}

\* the haplotypes with posterior below min_haplotype_posterior_: none or one,
\* never all of them, as the posteriors sum to one
\* what get_removable_haplotypes can return for posteriors that are not known:
\* no haplotype or one, and never all of them
RemovableHaplotypes(haps) == ({{}} \cup {{h} : h \in haps}) \ {haps}

\* line 62, in units of 1e-16
min_haplotype_posterior_ == 10

\* line 651 with <= for <
get_removable_haplotypes_inclusive(posteriors) ==
    {h \in DOMAIN posteriors : posteriors[h] <= min_haplotype_posterior_}

\* lines 640-659
get_removable_haplotypes(posteriors) ==
    {h \in DOMAIN posteriors : posteriors[h] < min_haplotype_posterior_}

call_variants(cands, latents) == cands \cap latents.called

\* a record is <<begin, end, kind>>: kind 1 a variant call, kind 0 a reference call
VariantCalls(cands) == SortAlleles({<<p, p + 1, 1>> : p \in cands})

\* the reference alleles whose posterior passes min_refcall_posterior: all of
\* them or all but the first
call_reference(alleles) == {alleles, SubSeq(alleles, 2, Len(alleles))}

remove_calls_outside_call_region(calls, region) ==
    SelectSeq(calls, LAMBDA c : overlaps(AlleleRegion(c), region))

append_calls(curr_records, new_calls) == curr_records \o new_calls

\* try_phase: nothing, or a block from the leftmost candidate of the haplotype
\* region to the end of one of its candidates
TryPhase(cands) ==
    {NoRegion} \cup {Region(SetMin(cands), c + 1) : c \in cands}

InitCall ==
    /\ pc = "start"
    /\ refcall_type \in RefCallTypes
    /\ lag_haplotype_generation \in BOOLEAN
    /\ max_haplotypes = MaxHaplotypes
    /\ requires_reads \in BOOLEAN
    /\ reads_empty \in (IF requires_reads THEN BOOLEAN ELSE {FALSE})
    /\ candidate_source \in (IF reads_empty THEN {{}} ELSE SUBSET Positions)
    /\ call_region \in {Region(0, RegionLen - 1), Region(0, RegionLen)}
    /\ candidate_region = NoRegion
    /\ candidates = {}
    /\ generator = NoGenerator
    /\ haplotypes = {}
    /\ active_region = NoRegion
    /\ haplotype_likelihoods = {}
    /\ caller_latents = NoLatents
    /\ phase_set = NoRegion
    /\ unphased_active_region = NoRegion
    /\ next_active_region = NoRegion
    /\ result = <<>>
    /\ TrioIdle
    /\ FactoryIdle
    /\ AuxIdle

\* lines 356-413: fetch reads, generate candidates, open the generator
Start ==
    /\ pc = "start"
    /\ LET region == calculate_candidate_region(call_region, requires_reads, reads_empty)
           found == generate_candidates(candidate_source, region)
       IN IF requires_reads /\ ~refcalls_requested /\ reads_empty
          THEN /\ pc' = "done"
               /\ UNCHANGED <<candidate_region, candidates, generator>>
          ELSE IF ~refcalls_requested /\ found = {}
          THEN /\ pc' = "done"
               /\ candidate_region' = region
               /\ candidates' = found
               /\ UNCHANGED generator
          ELSE /\ pc' = "progress"
               /\ candidate_region' = region
               /\ candidates' = found
               /\ generator' = NewGenerator(region, found, max_haplotypes,
                                            lag_haplotype_generation)
    /\ UNCHANGED <<refcall_type, lag_haplotype_generation, max_haplotypes, requires_reads,
                   reads_empty, candidate_source, call_region, haplotypes, active_region,
                   haplotype_likelihoods, caller_latents, phase_set,
                   unphased_active_region, next_active_region, result>>
    /\ UNCHANGED <<trioVars, factoryVars, auxVars>>

\* lines 415-458: progress(), the exit test, passed candidates, populate()
Progress ==
    /\ pc = "progress"
    /\ \E pl \in NextPlans(generator) :
        LET step == GenProgress(generator, pl)
        IN /\ haplotypes' = step[1]
           /\ active_region' = step[2]
           /\ generator' = step[3]
           /\ IF LoopExit(step[2], step[1], call_region)
              THEN /\ pc' = "done"
                   /\ UNCHANGED <<candidates, haplotype_likelihoods>>
              ELSE /\ pc' = "filter"
                   /\ candidates' = remove_passed_candidates(candidates, candidate_region,
                                                             haplotype_region(step[2]))
                   /\ haplotype_likelihoods' = populate(step[1])
    /\ UNCHANGED <<refcall_type, lag_haplotype_generation, max_haplotypes, requires_reads,
                   reads_empty, candidate_source, call_region, candidate_region,
                   caller_latents, phase_set, unphased_active_region,
                   next_active_region, result>>
    /\ UNCHANGED <<trioVars, factoryVars, auxVars>>

\* lines 466-497 without the erase() of line 490
FilterWithoutErase ==
    /\ pc = "filter"
    /\ \E removed_haplotypes \in filter_to_n_haplotypes(haplotypes, max_haplotypes) :
        IF haplotypes \ removed_haplotypes = {}
        THEN /\ haplotypes' = {}
             /\ generator' = GenClearProgress(generator)
             /\ pc' = "progress"
             /\ UNCHANGED haplotype_likelihoods
        ELSE /\ haplotypes' = haplotypes \ removed_haplotypes
             /\ UNCHANGED haplotype_likelihoods
             /\ generator' = GenUniquelyKeep(GenRemove(generator, removed_haplotypes),
                                             haplotypes \ removed_haplotypes)
             /\ pc' = "infer"
    /\ UNCHANGED <<refcall_type, lag_haplotype_generation, max_haplotypes, requires_reads,
                   reads_empty, candidate_source, call_region, candidate_region,
                   candidates, active_region, caller_latents, phase_set,
                   unphased_active_region, next_active_region, result>>
    /\ UNCHANGED <<trioVars, factoryVars, auxVars>>

\* lines 466-497: filter; on a tie clear_progress() and continue
Filter ==
    /\ pc = "filter"
    /\ \E removed_haplotypes \in filter_to_n_haplotypes(haplotypes, max_haplotypes) :
        IF haplotypes \ removed_haplotypes = {}
        THEN /\ haplotypes' = {}
             /\ generator' = GenClearProgress(generator)
             /\ pc' = "progress"
             /\ UNCHANGED haplotype_likelihoods
        ELSE /\ haplotypes' = haplotypes \ removed_haplotypes
             /\ haplotype_likelihoods' = erase(haplotype_likelihoods, removed_haplotypes)
             /\ generator' = GenUniquelyKeep(GenRemove(generator, removed_haplotypes),
                                             haplotypes \ removed_haplotypes)
             /\ pc' = "infer"
    /\ UNCHANGED <<refcall_type, lag_haplotype_generation, max_haplotypes, requires_reads,
                   reads_empty, candidate_source, call_region, candidate_region,
                   candidates, active_region, caller_latents, phase_set,
                   unphased_active_region, next_active_region, result>>
    /\ UNCHANGED <<trioVars, factoryVars, auxVars>>

\* lines 503-507: infer_latents() reads the cache, then clear()
Infer ==
    /\ pc = "infer"
    /\ caller_latents' \in InferLatents(haplotypes,
                              copy_overlapped(candidates, haplotype_region(active_region)))
    /\ haplotype_likelihoods' = clear(haplotype_likelihoods)
    /\ pc' = "phase"
    \* the candidates of the call region these latents are about await emission
    /\ pending' = pending \cup copy_overlapped(copy_overlapped(candidates, active_region),
                                                call_region)
    /\ UNCHANGED <<refcall_type, lag_haplotype_generation, max_haplotypes, requires_reads,
                   reads_empty, candidate_source, call_region, candidate_region,
                   candidates, generator, haplotypes, active_region, phase_set,
                   unphased_active_region, next_active_region, result>>
    /\ UNCHANGED <<trioVars, factoryVars, refVars, fmtVars, tcVars, cancelVars, mainVars, phredVars, removeVars, flankVars, dsVars, ctVars>>

\* lines 518-556: try_phase() and the phased-block branch
Phase ==
    /\ pc = "phase"
    /\ \E ps \in TryPhase(copy_overlapped(candidates, haplotype_region(active_region))) :
        /\ phase_set' = ps
        /\ IF overlaps(active_region, call_region) /\ ps # NoRegion
           THEN LET active_candidates == copy_overlapped(candidates, ps)
                    variant_calls == VariantCalls(call_variants(active_candidates,
                                                                caller_latents))
                    remaining_active_region == right_overhang_region(active_region, ps)
                IN /\ result' = append_calls(result,
                                    remove_calls_outside_call_region(variant_calls,
                                                                     call_region))
                   /\ generator' = GenForceForward(generator, remaining_active_region)
                   /\ unphased_active_region' = remaining_active_region
                   /\ pending' = pending \ active_candidates
           ELSE /\ unphased_active_region' = active_region
                /\ UNCHANGED <<result, generator, pending>>
    /\ pc' = "advance"
    /\ UNCHANGED <<refcall_type, lag_haplotype_generation, max_haplotypes, requires_reads,
                   reads_empty, candidate_source, call_region, candidate_region,
                   candidates, haplotypes, active_region, haplotype_likelihoods,
                   caller_latents, next_active_region>>
    /\ UNCHANGED <<trioVars, factoryVars, refVars, fmtVars, tcVars, cancelVars, mainVars, phredVars, removeVars, flankVars, dsVars, ctVars>>

\* lines 558-571: tell_next_active_region(), removable haplotypes, tell again
Advance ==
    /\ pc = "advance"
    /\ \E first \in NextPlans(generator) :
        IF has_passed(PlanRegion(generator, first), active_region)
        THEN /\ generator' = GenTell(generator, first)
             /\ next_active_region' = PlanRegion(generator, first)
        ELSE \E removable_haplotypes \in RemovableHaplotypes(haplotypes) :
                LET pruned == GenRemove(GenTell(generator, first), removable_haplotypes)
                IN \E second \in NextPlans(pruned) :
                        /\ generator' = GenTell(pruned, second)
                        /\ next_active_region' = PlanRegion(pruned, second)
    /\ pc' = "emit"
    /\ UNCHANGED <<refcall_type, lag_haplotype_generation, max_haplotypes, requires_reads,
                   reads_empty, candidate_source, call_region, candidate_region,
                   candidates, haplotypes, active_region, haplotype_likelihoods,
                   caller_latents, phase_set, unphased_active_region, result>>
    /\ UNCHANGED <<trioVars, factoryVars, auxVars>>

\* lines 573-622: calls and reference calls for the region that was passed
Emit ==
    /\ pc = "emit"
    /\ IF begins_before(active_region, next_active_region)
          /\ overlaps(active_region, call_region)
       THEN LET passed_region == left_overhang_region(active_region, next_active_region)
                uncalled_region ==
                    IF phase_set # NoRegion /\ ends_before(phase_set, passed_region)
                    THEN right_overhang_region(passed_region, phase_set)
                    ELSE overlapped_region(active_region, passed_region)
                active_candidates == copy_overlapped(candidates, uncalled_region)
                called == call_variants(active_candidates, caller_latents)
                variant_calls == remove_calls_outside_call_region(VariantCalls(called),
                                                                  call_region)
                with_variants == append_calls(result, variant_calls)
                called_regions ==
                    extract_covered_regions({CandidateRegion(p) : p \in called})
                alleles == generate_candidate_reference_alleles(
                               uncalled_region,
                               {CandidateRegion(p) : p \in active_candidates},
                               called_regions, refcall_type)
            IN /\ IF refcalls_requested
                  THEN \E reference_calls \in call_reference(alleles) :
                           result' = append_calls(with_variants, reference_calls)
                  ELSE result' = with_variants
               /\ pending' = pending \ active_candidates
       ELSE UNCHANGED <<result, pending>>
    /\ pc' = "progress"
    \* a cancellation of call() may be requested while the body of the loop runs;
    \* call() takes no cancellation token (lines 356-357) and the loop reads
    \* none (lines 383-433)
    /\ cancel_requested' \in {cancel_requested, TRUE}
    /\ UNCHANGED <<refcall_type, lag_haplotype_generation, max_haplotypes, requires_reads,
                   reads_empty, candidate_source, call_region, candidate_region,
                   candidates, generator, haplotypes, active_region,
                   haplotype_likelihoods, caller_latents, phase_set,
                   unphased_active_region, next_active_region>>
    /\ UNCHANGED <<trioVars, factoryVars, refVars, fmtVars, tcVars, mainVars, phredVars, removeVars, flankVars, dsVars, ctVars>>

NextCall == Start \/ Progress \/ Filter \/ Infer \/ Phase \/ Advance \/ Emit

SpecCall == InitCall /\ [][NextCall]_vars

\* ------------------------------- generate_candidate_reference_alleles alone
\* the longest candidate region
MaxCandidateSize == 2

\* the regions a candidate may have: substitutions and deletions of the window
CandidateRegions ==
    {Region(b, e) : b \in Positions, e \in 1 .. RegionLen} \cap
    {c \in Int \X Int : Begin(c) < End(c) /\ region_size(c) <= MaxCandidateSize}

InitRef ==
    /\ ref_pc = "start"
    /\ ref_type \in RefCallTypes
    /\ ref_region \in {Region(b, RegionLen) : b \in 0 .. 1} \cup {Region(0, RegionLen - 1)}
    /\ ref_candidates \in SUBSET {c \in CandidateRegions : overlaps(c, ref_region)}
    /\ \E called \in SUBSET ref_candidates : ref_called = extract_covered_regions(called)
    /\ ref_alleles = <<>>
    /\ CallIdle
    /\ TrioIdle
    /\ FactoryIdle
    /\ FmtIdle
    /\ TcIdle
    /\ CancelIdle
    /\ MainIdle
    /\ PhredIdle
    /\ RemoveIdle
    /\ PendingIdle
    /\ FlankIdle
    /\ DsIdle
    /\ CtIdle

\* lines 610-612: the reference alleles of the uncalled region
GenerateReferenceAlleles ==
    /\ ref_pc = "start"
    /\ ref_alleles' = generate_candidate_reference_alleles(ref_region, ref_candidates,
                                                            ref_called, ref_type)
    /\ ref_pc' = "done"
    /\ UNCHANGED <<ref_type, ref_region, ref_candidates, ref_called>>
    /\ UNCHANGED <<callVars, trioVars, factoryVars, fmtVars, tcVars, cancelVars, mainVars, phredVars, removeVars, pendingVars, flankVars, dsVars, ctVars>>

NextRef == GenerateReferenceAlleles

SpecRef == InitRef /\ [][NextRef]_vars

\* ---------------------------------------------------------------- TrioCaller
\* src/src/core/callers/trio_caller.cpp

\* the largest ploidy a sample is given
MaxPloidy == 3

\* lines 52-68 without the test of line 61
trio_constructor_inherit_unchecked(maternal, paternal, child, max_ploidy) ==
    IF maternal = 0 /\ paternal = 0 /\ child = 0 THEN "logic_error"
    ELSE IF maternal > max_ploidy \/ paternal > max_ploidy \/ child > max_ploidy
    THEN "BadPloidy"
    ELSE "constructed"

\* lines 52-68: the constructor throws or returns
trio_constructor(maternal, paternal, child, max_ploidy) ==
    IF maternal = 0 /\ paternal = 0 /\ child = 0 THEN "logic_error"
    ELSE IF child = 0 /\ maternal > 0 /\ paternal > 0 THEN "logic_error"
    ELSE IF maternal > max_ploidy \/ paternal > max_ploidy \/ child > max_ploidy
    THEN "BadPloidy"
    ELSE "constructed"

\* lines 375-433: the model infer_latents evaluates
trio_infer_latents(maternal, paternal, child) ==
    IF child = 0
    THEN IF ~(maternal = 0 \/ paternal = 0) THEN "assert_failed"
         ELSE IF maternal > 0 THEN "IndividualModel(mother)"
         ELSE "IndividualModel(father)"
    ELSE IF maternal = paternal THEN "TrioModel(maternal, maternal, maternal)"
    ELSE IF maternal = child THEN "TrioModel(maternal, paternal, maternal)"
    ELSE "TrioModel(maternal, paternal, paternal)"

InitTrio ==
    /\ maternal_ploidy \in 0 .. MaxPloidy
    /\ paternal_ploidy \in 0 .. MaxPloidy
    /\ child_ploidy \in 0 .. MaxPloidy
    /\ trio_max_ploidy \in 1 .. MaxPloidy
    /\ trio_pc = "new"
    /\ CallIdle
    /\ FactoryIdle
    /\ AuxIdle

TrioConstruct ==
    /\ trio_pc = "new"
    /\ trio_pc' = trio_constructor(maternal_ploidy, paternal_ploidy, child_ploidy,
                                   trio_max_ploidy)
    /\ UNCHANGED <<maternal_ploidy, paternal_ploidy, child_ploidy, trio_max_ploidy>>
    /\ UNCHANGED <<callVars, factoryVars, auxVars>>

TrioInferLatents ==
    /\ trio_pc = "constructed"
    /\ trio_pc' = trio_infer_latents(maternal_ploidy, paternal_ploidy, child_ploidy)
    /\ UNCHANGED <<maternal_ploidy, paternal_ploidy, child_ploidy, trio_max_ploidy>>
    /\ UNCHANGED <<callVars, factoryVars, auxVars>>

NextTrio == TrioConstruct \/ TrioInferLatents

SpecTrio == InitTrio /\ [][NextTrio]_vars

\* ------------------------------------------------- TrioCaller::call_variants
\* src/src/core/callers/trio_caller.cpp
\*
\* A candidate is a site 1 .. TrioSites; an allele is <<site, kind>>, kind 0 the
\* reference allele and 1 the alternative allele of the candidate.  A genotype
\* gives the number of haplotypes that carry the alternative allele of every
\* site.  A JointProbability is [maternal, paternal, child, probability], the
\* probability in units of one over the sum of Weights.  A Phred score is written by the
\* error probability it stands for, in the same units: a score is at least
\* another when its error probability is at most the other's.

TrioSites == 2
\* the most haplotypes of one individual that carry an alternative allele
MaxCopies == 1

TrioAlleles == (1 .. TrioSites) \X {0, 1}
TrioGenotypes == [1 .. TrioSites -> 0 .. MaxCopies]
HomRef == [i \in 1 .. TrioSites |-> 0]

\* the probabilities of the trios of the posterior vector, by position
Weights == <<7, 5, 4, 3>>

\* lines 643-647
count_occurrences(allele, genotype) ==
    IF allele[2] = 1 THEN genotype[allele[1]] ELSE Ploidy - genotype[allele[1]]

contains_helper(genotype, allele) == count_occurrences(allele, genotype) > 0

\* lines 564-578
trio_contains(trio, allele) ==
    \/ contains_helper(trio.maternal, allele)
    \/ contains_helper(trio.paternal, allele)
    \/ contains_helper(trio.child, allele)

\* lines 580-596: the error probability of the score, the mass of the trios
\* that fail the condition
marginalise_condition(posteriors, pred) ==
    LET sum[k \in 0 .. Len(posteriors)] ==
            IF k = 0 THEN 0
            ELSE sum[k - 1] + (IF pred[k] THEN 0 ELSE posteriors[k].probability)
    IN sum[Len(posteriors)]

\* lines 598-630
compute_segregation_posterior(allele, posteriors) ==
    marginalise_condition(posteriors, [k \in 1 .. Len(posteriors) |->
                                          trio_contains(posteriors[k], allele)])

\* lines 632-639: p.second >= min_posterior
call_alleles(posteriors, min_posterior) ==
    {a \in TrioAlleles : compute_segregation_posterior(a, posteriors) <= min_posterior}

\* lines 649-664
is_denovo(allele, trio) ==
    LET child_occurrences == count_occurrences(allele, trio.child)
        maternal_occurrences == count_occurrences(allele, trio.maternal)
        paternal_occurrences == count_occurrences(allele, trio.paternal)
    IN CASE child_occurrences = 0 -> FALSE
         [] child_occurrences = 1 ->
                ~(contains_helper(trio.maternal, allele) \/ contains_helper(trio.paternal, allele))
         [] child_occurrences = 2 ->
                ~(contains_helper(trio.maternal, allele) /\ contains_helper(trio.paternal, allele))
         [] OTHER -> /\ maternal_occurrences > 0
                     /\ paternal_occurrences > 0
                     /\ maternal_occurrences + paternal_occurrences >= child_occurrences

\* lines 685-716
compute_denovo_posterior(allele, posteriors) ==
    marginalise_condition(posteriors, [k \in 1 .. Len(posteriors) |->
                                          is_denovo(allele, posteriors[k])])

\* lines 730-741
call_denovos(called_alleles, posteriors, min_denovo) ==
    {a \in called_alleles : compute_denovo_posterior(a, posteriors) <= min_denovo}

\* lines 755-764
get_germline_alleles(called_alleles, denovos) == called_alleles \ denovos

\* lines 777-801: the alleles that are the alternative allele of a candidate
call_germline_variants(germline_alleles, posteriors, min_posterior) ==
    {a \in germline_alleles :
        /\ compute_segregation_posterior(a, posteriors) <= min_posterior
        /\ a[2] = 1}

\* lines 813-830
is_viable_genotype_call(trio, germline_calls, denovo_calls) ==
    /\ \A a \in germline_calls : ~is_denovo(a, trio)
    /\ \A a \in denovo_calls : is_denovo(a, trio)

\* the orders std::sort can leave the posteriors in, by decreasing
\* probability: the order of trios of equal probability is unspecified
std_sort_orders(posteriors) ==
    {order \in Permutations(1 .. Len(posteriors)) :
        \A k \in 1 .. (Len(posteriors) - 1) :
            posteriors[order[k]].probability >= posteriors[order[k + 1]].probability}

\* lines 837-864: the most probable trio or, when it is not viable, the first
\* viable one behind the first of the sorted posteriors
call_trio(posteriors, order, germline_calls, denovo_calls) ==
    LET N == Len(posteriors)
        \* std::max_element: the first of the most probable
        map == CHOOSE k \in 1 .. N :
                   /\ \A j \in 1 .. N : posteriors[j].probability <= posteriors[k].probability
                   /\ \A j \in 1 .. (k - 1) :
                          posteriors[j].probability < posteriors[k].probability
        \* std::find_if from std::next(begin)
        viable == {k \in 2 .. N :
                      is_viable_genotype_call(posteriors[order[k]], germline_calls,
                                              denovo_calls)}
    IN IF N = 1 \/ is_viable_genotype_call(posteriors[map], germline_calls, denovo_calls)
       THEN posteriors[map]
       ELSE IF viable # {}
       THEN posteriors[order[SetMin(viable)]]
       ELSE posteriors[map]

\* lines 808-811 and 876-890
remove_ungenotyped_allele(calls, trio) == {a \in calls : trio_contains(trio, a)}

\* lines 1037-1066: the calls, each an allele and the kind of call
trio_call_variants(posteriors, order, min_posterior, min_denovo) ==
    LET called_alleles == call_alleles(posteriors, min_posterior)
        denovos == call_denovos(called_alleles, posteriors, min_denovo)
        germline_alleles == get_germline_alleles(called_alleles, denovos)
        germline_variants == call_germline_variants(germline_alleles, posteriors,
                                                    min_posterior)
        trio_call == call_trio(posteriors, order, germline_variants, denovos)
    IN {<<a, "germline">> : a \in remove_ungenotyped_allele(germline_variants, trio_call)}
         \cup {<<a, "denovo">> : a \in remove_ungenotyped_allele(denovos, trio_call)}

\* the thresholds of the runs, as error probabilities
VariantThresholds == {2, 6, 9}
DenovoThresholds == {3}

\* the trios of the posterior vector: four different trios whose father is
\* homozygous for the reference
InitTrioCall ==
    /\ tc_pc = "start"
    /\ \E trios \in [1 .. Len(Weights) -> TrioGenotypes \X TrioGenotypes] :
           /\ \A j, k \in 1 .. Len(Weights) : j # k => trios[j] # trios[k]
           /\ trio_posteriors = [k \in 1 .. Len(Weights) |->
                                    [maternal |-> trios[k][1], paternal |-> HomRef,
                                     child |-> trios[k][2], probability |-> Weights[k]]]
    /\ min_variant_posterior \in VariantThresholds
    /\ lower_variant_posterior \in {t \in VariantThresholds : t > min_variant_posterior}
    /\ min_denovo_posterior \in DenovoThresholds
    /\ tc_calls = {}
    /\ tc_calls_lower = {}
    /\ CallIdle
    /\ TrioIdle
    /\ FactoryIdle
    /\ RefIdle
    /\ FmtIdle
    /\ CancelIdle
    /\ MainIdle
    /\ PhredIdle
    /\ RemoveIdle
    /\ PendingIdle
    /\ FlankIdle
    /\ DsIdle
    /\ CtIdle

\* call_variants with parameters_.min_variant_posterior
TrioCallVariants ==
    /\ tc_pc = "start"
    /\ \E order \in std_sort_orders(trio_posteriors) :
           tc_calls' = trio_call_variants(trio_posteriors, order, min_variant_posterior,
                                          min_denovo_posterior)
    /\ tc_pc' = "called"
    /\ UNCHANGED <<trio_posteriors, min_variant_posterior, lower_variant_posterior,
                   min_denovo_posterior, tc_calls_lower>>
    /\ UNCHANGED <<callVars, trioVars, factoryVars, refVars, fmtVars, cancelVars, mainVars, phredVars, removeVars, pendingVars, flankVars, dsVars, ctVars>>

\* call_variants with the lower threshold, everything else the same
TrioCallVariantsLower ==
    /\ tc_pc = "called"
    /\ \E order \in std_sort_orders(trio_posteriors) :
           tc_calls_lower' = trio_call_variants(trio_posteriors, order,
                                                lower_variant_posterior,
                                                min_denovo_posterior)
    /\ tc_pc' = "called_again"
    /\ UNCHANGED <<trio_posteriors, min_variant_posterior, lower_variant_posterior,
                   min_denovo_posterior, tc_calls>>
    /\ UNCHANGED <<callVars, trioVars, factoryVars, refVars, fmtVars, cancelVars, mainVars, phredVars, removeVars, pendingVars, flankVars, dsVars, ctVars>>

NextTrioCall == TrioCallVariants \/ TrioCallVariantsLower

SpecTrioCall == InitTrioCall /\ [][NextTrioCall]_vars

\* ---------------------------------------------------------- VcfRecordFactory
\* src/src/core/tools/vcf_record_factory.cpp, src/src/core/types/calls/variant_call.cpp
\*
\* A nucleotide sequence is a sequence of one-character strings.  A call is
\*   [region, ref, alt, genotype, phase]
\* where genotype[s][i] is the sequence of the i-th allele of sample s and
\* phase[s] is the region of the sample's Call::PhaseCall, or NoRegion.

Bases == <<"A", "C", "G", "T">>
\* reference_.fetch_sequence(position).front()
RefBase(p) == Bases[(p % 4) + 1]
AltBase(p) == Bases[((p + 1) % 4) + 1]

\* the variants a caller can call in the window
Snv(p) == [region |-> Region(p, p + 1), ref |-> <<RefBase(p)>>, alt |-> <<AltBase(p)>>]
Insertion(p) == [region |-> Region(p, p), ref |-> <<>>, alt |-> <<RefBase(p + 2)>>]
Deletion(p) == [region |-> Region(p, p + 1), ref |-> <<RefBase(p)>>, alt |-> <<>>]
Catalog ==
    {Snv(p) : p \in 0 .. (FactoryLen - 1)}
        \cup {Insertion(p) : p \in 1 .. (FactoryLen - 1)}
        \cup {Deletion(p) : p \in 1 .. (FactoryLen - 1)}

\* a haplotype is the set of variants it carries; two of them never replace
\* the same reference base
IsHaplotype(h) ==
    \A a, b \in h : a # b => overlap_size(a.region, b.region) <= 0

\* the sequence of haplotype h over region r; inserted sequence at either end
\* of r belongs to it
HaplotypeSequence(h, r) ==
    LET ins(q) == IF q \in 1 .. (FactoryLen - 1) /\ Insertion(q) \in h
                  THEN Insertion(q).alt ELSE <<>>
        base(q) == IF q \in 1 .. (FactoryLen - 1) /\ Deletion(q) \in h THEN <<>>
                   ELSE IF Snv(q) \in h THEN Snv(q).alt
                   ELSE <<RefBase(q)>>
        seq[q \in Begin(r) .. End(r)] ==
            IF q = End(r) THEN ins(q) ELSE ins(q) \o base(q) \o seq[q + 1]
    IN seq[Begin(r)]

RegionLess(l, r) == Begin(l) < Begin(r) \/ (Begin(l) = Begin(r) /\ End(l) < End(r))

\* the sorted lists of the variants V
SortedLists(V) ==
    {q \in [1 .. Cardinality(V) -> V] :
        /\ \A i, j \in DOMAIN q : i # j => q[i] # q[j]
        /\ \A i, j \in DOMAIN q : i < j => ~RegionLess(q[j].region, q[i].region)}

\* the call of variant v when sample s has the haplotypes genotypes[s]; the
\* quality is a Phred score in thousandths
MakeVariantCall(v, genotypes, quality) ==
    [region |-> v.region, ref |-> v.ref, alt |-> v.alt, quality |-> quality,
     genotype |-> [s \in Samples |->
                    [i \in 1 .. Ploidy |-> HaplotypeSequence(genotypes[s][i], v.region)]],
     phase |-> [s \in Samples |-> NoRegion]]

\* the phase regions a phaser can report for one sample: none, the whole
\* window, or the window cut in two
PhaserOutputs ==
    {<<>>, <<Region(0, FactoryLen)>>}
        \cup {<<Region(0, k), Region(k, FactoryLen)>> : k \in 1 .. (FactoryLen - 1)}

\* ---- sequences

\* front() of an empty sequence is undefined; it is written "?"
Front(seq) == IF seq = <<>> THEN "?" ELSE seq[1]
ReplaceFront(seq, c) == IF seq = <<>> THEN <<c>> ELSE <<c>> \o Tail(seq)
ReplaceBase(seq, old, new) == [i \in 1 .. Len(seq) |-> IF seq[i] = old THEN new ELSE seq[i]]
HasBase(seq, c) == \E i \in 1 .. Len(seq) : seq[i] = c
Fill(seq, n, c) == [i \in 1 .. Len(seq) |-> IF i <= n THEN c ELSE seq[i]]
Repeat(n, c) == [i \in 1 .. n |-> c]
DropLast(seq, n) == SubSeq(seq, 1, Len(seq) - n)
DropFirst(seq, n) == SubSeq(seq, n + 1, Len(seq))
expand_lhs(r, n) == Region(Begin(r) - n, End(r))
begin_distance(l, r) == Begin(r) - Begin(l)

\* ---- resolve_indel_genotypes, lines 79-160

\* the test of lines 98 and 139 with < for <=
inconsistent_allele_strict(allele1, allele2) ==
    Len(allele2) > 0 /\ Len(allele1) < Len(allele2)

\* lines 96-98 and 137-139: an allele no longer than the inserted sequence
inconsistent_allele(allele1, allele2) ==
    Len(allele2) > 0 /\ Len(allele1) <= Len(allele2)

Inconsistent(call, insertion) ==
    \E s \in Samples, i \in 1 .. Ploidy :
        inconsistent_allele(call.genotype[s][i], insertion.genotype[s][i])

\* lines 55-77, 99 and 140: the error thrown for the first inconsistent allele
\* of the calls K, in the order of the loops
NoError == [sample |-> 0, first |-> <<>>, second |-> <<>>]
InconsistentCallError(cs, K, insertion) ==
    LET bad == {t \in K \X Samples \X (1 .. Ploidy) :
                   inconsistent_allele(cs[t[1]].genotype[t[2]][t[3]],
                                       insertion.genotype[t[2]][t[3]])}
        before(t, u) == \/ t[1] < u[1]
                        \/ t[1] = u[1] /\ t[2] < u[2]
                        \/ t[1] = u[1] /\ t[2] = u[2] /\ t[3] <= u[3]
        t == CHOOSE t \in bad : \A u \in bad : before(t, u)
    IN [sample |-> t[2],
        first |-> cs[t[1]].genotype[t[2]][t[3]],
        second |-> insertion.genotype[t[2]][t[3]]]

\* lines 87-113 (atEnd) and 128-154: take the inserted sequence off the alleles
RemoveInserted(call, insertion, atEnd) ==
    [call EXCEPT !.genotype =
        [s \in Samples |-> [i \in 1 .. Ploidy |->
            LET allele1 == call.genotype[s][i]
                allele2 == insertion.genotype[s][i]
            IN IF Len(allele2) > 0
               THEN IF atEnd THEN DropLast(allele1, Len(allele2))
                    ELSE DropFirst(allele1, Len(allele2))
               ELSE allele1]]]

\* the first call from index i on that lies after region r without touching it
find_first_after(cs, i, r) ==
    LET after == {j \in i .. Len(cs) :
                    is_after(cs[j].region, r) /\ ~overlaps(cs[j].region, r)}
    IN IF after = {} THEN Len(cs) + 1 ELSE SetMin(after)

RECURSIVE resolve_from(_, _)
resolve_from(cs, it) ==
    IF it > Len(cs) THEN [calls |-> cs, error |-> FALSE, what |-> NoError]
    ELSE IF ~is_empty(cs[it].region) THEN resolve_from(cs, it + 1)
    ELSE
        LET rb == SetMin({j \in 1 .. it :
                      \A k \in j .. (it - 1) : are_adjacent(cs[k].region, cs[it].region)})
            cs1 == [k \in 1 .. Len(cs) |->
                      IF k \in rb .. (it - 1) THEN RemoveInserted(cs[k], cs[it], TRUE)
                      ELSE cs[k]]
            later == {j \in (it + 1) .. Len(cs) : cs[j].region # cs[it].region}
            it2 == IF later = {} THEN Len(cs) + 1 ELSE SetMin(later)
            it3 == find_first_after(cs, it2 + 1, cs[it].region)
            cs2 == [k \in 1 .. Len(cs) |->
                      IF k \in it2 .. (it3 - 1) THEN RemoveInserted(cs1[k], cs1[it], FALSE)
                      ELSE cs1[k]]
        IN IF \E k \in rb .. (it - 1) : Inconsistent(cs[k], cs[it])
           THEN [calls |-> cs, error |-> TRUE,
                 what |-> InconsistentCallError(cs, rb .. (it - 1), cs[it])]
           ELSE IF it2 > Len(cs) THEN [calls |-> cs1, error |-> FALSE, what |-> NoError]
           ELSE IF ~overlaps(cs1[it].region, cs1[it2].region) THEN resolve_from(cs1, it2)
           ELSE IF \E k \in it2 .. (it3 - 1) : Inconsistent(cs1[k], cs1[it])
           THEN [calls |-> cs, error |-> TRUE,
                 what |-> InconsistentCallError(cs1, it2 .. (it3 - 1), cs1[it])]
           ELSE resolve_from(cs2, it3)

resolve_indel_genotypes(cs) == resolve_from(cs, 1)

\* ---- VariantCall, variant_call.cpp

\* a variant with an empty allele needs a padding base
is_parsimonious(v) == v.ref # <<>> /\ v.alt # <<>>
make_parsimonious(v, dummy_base) ==
    IF v.ref # <<>> /\ v.alt # <<>> THEN v
    ELSE [v EXCEPT !.region = expand_lhs(v.region, 1),
                   !.ref = <<dummy_base>> \o v.ref,
                   !.alt = <<dummy_base>> \o v.alt]

\* lines 33-36
is_represented(call, allele) == allele = call.ref \/ allele = call.alt

\* lines 38-67
replace_called_alleles(call, old_base, replacement_base) ==
    [call EXCEPT !.ref = ReplaceBase(call.ref, old_base, replacement_base),
                 !.alt = ReplaceBase(call.alt, old_base, replacement_base)]

\* Call::replace(char, char): the called alleles and every genotype allele
replace_base(call, old_base, replacement_base) ==
    [replace_called_alleles(call, old_base, replacement_base) EXCEPT !.genotype =
        [s \in Samples |-> [i \in 1 .. Ploidy |->
            ReplaceBase(call.genotype[s][i], old_base, replacement_base)]]]

\* lines 69-76
replace(call, old, replacement) ==
    IF call.ref = old THEN [call EXCEPT !.ref = replacement]
    ELSE IF call.alt = old THEN [call EXCEPT !.alt = replacement]
    ELSE call

\* lines 78-86
matches_sequence(lhs, rhs, ignoring) ==
    \A k \in 1 .. Len(lhs) : lhs[k] = rhs[k] \/ lhs[k] = ignoring \/ rhs[k] = ignoring

\* lines 88-100
matches(allele, call, ignoring) ==
    IF allele = call.ref \/ allele = call.alt THEN TRUE
    ELSE IF Len(allele) = Len(call.ref) THEN matches_sequence(call.ref, allele, ignoring)
    ELSE IF Len(allele) = Len(call.alt) THEN matches_sequence(call.alt, allele, ignoring)
    ELSE FALSE

\* lines 102-129
replace_uncalled_genotype_alleles(call, replacement, ignoring) ==
    [call EXCEPT !.genotype =
        [s \in Samples |-> [i \in 1 .. Ploidy |->
            IF matches(call.genotype[s][i], call, ignoring)
            THEN call.genotype[s][i] ELSE replacement]]]

\* lines 150-184 returning at once: no padding base is added
parsimonise_unpadded(call, dummy_base) == [call |-> call, shifted |-> FALSE]

\* lines 150-184: the padded call and whether the variant has shifted
parsimonise(call, dummy_base) ==
    IF call.ref = call.alt \/ is_parsimonious(call)
    THEN [call |-> call, shifted |-> FALSE]
    ELSE
        LET parsimonised_variant == make_parsimonious(call, dummy_base)
            has_variant_shifted == begins_before(parsimonised_variant.region, call.region)
        IN [call |->
               [parsimonised_variant EXCEPT !.genotype =
                   [s \in Samples |-> [i \in 1 .. Ploidy |->
                       LET allele == call.genotype[s][i]
                       IN IF allele = call.ref THEN parsimonised_variant.ref
                          ELSE IF allele = call.alt THEN parsimonised_variant.alt
                          ELSE IF has_variant_shifted THEN <<dummy_base>> \o allele
                          ELSE allele]]],
            shifted |-> has_variant_shifted]

\* ---- pad_indels, lines 162-218

\* std::sort and std::inplace_merge on calls compare their regions
RECURSIVE Merge(_, _)
Merge(a, b) ==
    IF a = <<>> THEN b
    ELSE IF b = <<>> THEN a
    ELSE IF RegionLess(b[1].region, a[1].region) THEN <<b[1]>> \o Merge(a, Tail(b))
    ELSE <<a[1]>> \o Merge(Tail(a), b)

RECURSIVE SortCalls(_)
SortCalls(cs) ==
    IF cs = <<>> THEN <<>> ELSE Merge(<<cs[1]>>, SortCalls(Tail(cs)))

\* the calls of a sorted list that overlap region r
overlap_range(cs, r) == SelectSeq(cs, LAMBDA c : overlaps(c.region, r))

\* lines 171-175
needs_phase_adjust(call) ==
    \E s \in Samples :
        call.phase[s] # NoRegion /\ begins_before(call.region, call.phase[s])

\* lines 179-189
adjust_phase(call) ==
    [call EXCEPT !.phase =
        [s \in Samples |->
            IF call.phase[s] # NoRegion /\ begins_before(call.region, call.phase[s])
            THEN expand_lhs(call.phase[s], 1) ELSE call.phase[s]]]

\* lines 190-212
follow_phase(call, adjusted) ==
    [call EXCEPT !.phase =
        [s \in Samples |->
            LET phase == call.phase[s]
                direct == overlap_range(adjusted, phase)
                widened == overlap_range(adjusted, expand_lhs(phase, 1))
                overlapped ==
                    IF direct # <<>> THEN direct
                    ELSE IF widened # <<>> /\ begin_distance(widened[1].region, phase) # 1
                    THEN Tail(widened)
                    ELSE widened
            IN IF phase # NoRegion /\ overlapped # <<>> /\ overlapped[1].region # call.region
               THEN encompassing_region(overlapped[1].region, phase)
               ELSE phase]]

pad_indels(cs) ==
    LET padded == [k \in 1 .. Len(cs) |-> parsimonise(cs[k], "#")]
        unmodified == [k \in 1 .. Len(SelectSeq(padded, LAMBDA x : ~x.shifted)) |->
                          SelectSeq(padded, LAMBDA x : ~x.shifted)[k].call]
        modified == [k \in 1 .. Len(SelectSeq(padded, LAMBDA x : x.shifted)) |->
                        SelectSeq(padded, LAMBDA x : x.shifted)[k].call]
        in_phase == SelectSeq(modified, LAMBDA c : ~needs_phase_adjust(c))
        to_adjust == SortCalls(SelectSeq(modified, LAMBDA c : needs_phase_adjust(c)))
        adjusted == [k \in 1 .. Len(to_adjust) |-> adjust_phase(to_adjust[k])]
        follow(q) == IF adjusted = <<>> THEN q
                     ELSE [k \in 1 .. Len(q) |-> follow_phase(q[k], adjusted)]
    IN IF modified = <<>> THEN unmodified
       ELSE Merge(follow(unmodified), Merge(SortCalls(follow(in_phase)), adjusted))

\* ---- VcfRecordFactory::make, lines 220-466

\* the order of std::set<Allele> on alleles of one region: by sequence
CharRank(c) ==
    CASE c = "#" -> 35 [] c = "*" -> 42 [] c = "." -> 46 [] c = "?" -> 63
      [] c = "A" -> 65 [] c = "C" -> 67 [] c = "G" -> 71 [] c = "N" -> 78
      [] c = "T" -> 84
SequenceLess(a, b) ==
    \E k \in 1 .. (Len(b)) :
        /\ \A m \in 1 .. (k - 1) : m <= Len(a) /\ a[m] = b[m]
        /\ (k > Len(a) \/ CharRank(a[k]) < CharRank(b[k]))
RECURSIVE SortSequences(_)
SortSequences(S) ==
    IF S = {} THEN <<>>
    ELSE LET least == CHOOSE a \in S : \A b \in S : a = b \/ SequenceLess(a, b)
         IN <<least>> \o SortSequences(S \ {least})

\* the first index from i on whose call overlaps the call after it
adjacent_overlap_find(cs, i) ==
    LET found == {j \in i .. (Len(cs) - 1) : overlaps(cs[j].region, cs[j + 1].region)}
    IN IF found = {} THEN Len(cs) + 1 ELSE SetMin(found)

\* the index after the run of calls from i on that overlap the rightmost call
\* seen so far
RECURSIVE next_mutually_exclusive(_, _, _)
next_mutually_exclusive(cs, k, rightmost) ==
    IF k > Len(cs) THEN k
    ELSE IF overlaps(cs[k].region, rightmost)
    THEN next_mutually_exclusive(cs, k + 1,
             IF ends_before(rightmost, cs[k].region) THEN cs[k].region ELSE rightmost)
    ELSE k
find_next_mutually_exclusive(cs, i) == next_mutually_exclusive(cs, i + 1, cs[i].region)

\* lines 246-249
block_head_end(cs, bb) ==
    LET later == {k \in (bb + 1) .. Len(cs) : Begin(cs[k].region) # Begin(cs[bb].region)}
    IN IF later = {} THEN Len(cs) + 1 ELSE SetMin(later)

\* lines 250-255: the first head call whose reference does not start with '#'
block_base(cs, bb, hend) ==
    LET alt_itr == {k \in bb .. (hend - 1) : Front(cs[k].ref) # "#"}
    IN IF alt_itr = {} THEN <<>> ELSE <<cs[SetMin(alt_itr)]>>

\* lines 290-298: the called alleles follow the replaced genotype alleles; a
\* further replacement of the same allele makes a duplicate of the call
RECURSIVE head_replacements(_, _, _)
head_replacements(call, keys, replacements) ==
    IF keys = <<>> THEN [call |-> call, duplicates |-> <<>>]
    ELSE LET news == SortSequences(replacements[keys[1]])
             dups == [k \in 1 .. (Len(news) - 1) |-> replace(call, keys[1], news[k + 1])]
             rest == head_replacements(replace(call, keys[1], news[1]), Tail(keys),
                                       replacements)
         IN [call |-> rest.call, duplicates |-> dups \o rest.duplicates]

\* lines 257-300 for one call of the block head; the front of an empty base
\* sequence is written "?"
resolve_head_call(call, base) ==
    IF Front(call.ref) # "#" THEN [call |-> call, duplicates |-> <<>>]
    ELSE
        LET actual_reference_base == RefBase(Begin(call.region))
            lead(s, i) ==
                IF base = <<>> THEN actual_reference_base
                ELSE IF base[1].genotype[s][i] = <<>> THEN "?"
                ELSE Front(base[1].genotype[s][i])
            padded(s, i) == call.genotype[s][i] # <<>> /\ Front(call.genotype[s][i]) = "#"
            new_allele(s, i) ==
                IF padded(s, i) THEN ReplaceFront(call.genotype[s][i], lead(s, i))
                ELSE call.genotype[s][i]
            olds == {call.genotype[s][i] : s \in Samples, i \in 1 .. Ploidy} \cap
                    {a \in {call.genotype[s][i] : s \in Samples, i \in 1 .. Ploidy} :
                        a # <<>> /\ Front(a) = "#"}
            replacements == [old \in olds |->
                {new_allele(x[1], x[2]) : x \in {y \in Samples \X (1 .. Ploidy) :
                                                    call.genotype[y[1]][y[2]] = old}}]
            resolved ==
                [replace(call, call.ref, ReplaceFront(call.ref, actual_reference_base))
                    EXCEPT !.genotype =
                        [s \in Samples |-> [i \in 1 .. Ploidy |-> new_allele(s, i)]]]
        IN head_replacements(resolved, SortSequences(olds), replacements)

\* lines 301-328: from the last but one head call down to the first
RECURSIVE mark_head(_, _, _)
mark_head(cs, k, bb) ==
    IF k < bb THEN cs
    ELSE LET prev_call == cs[k + 1]
             marked == [cs[k] EXCEPT !.genotype =
                 [s \in Samples |-> [i \in 1 .. Ploidy |->
                     LET old == cs[k].genotype[s][i]
                     IN IF \/ prev_call.genotype[s][i] = <<"*">>
                           \/ /\ prev_call.genotype[s][i] = old
                              /\ Len(old) < region_size(cs[k].region)
                        THEN <<"*">> ELSE old]]]
         IN mark_head([cs EXCEPT ![k] = marked], k - 1, bb)

\* lines 330-342: the index of the last head call that represents the allele
initial_prev_represented(cs, bb, hend) ==
    [s \in Samples |-> [i \in 1 .. Ploidy |->
        LET represented == {k \in bb .. (hend - 1) :
                               is_represented(cs[k], cs[k].genotype[s][i])}
        IN IF represented = {} THEN 0 ELSE SetMax(represented)]]

\* lines 48-51
are_in_phase(lhs_phase, rhs_genotype_region) ==
    lhs_phase # NoRegion /\ overlaps(lhs_phase, rhs_genotype_region)

\* lines 346-429 for one call after the block head
resolve_tail_call(cs, k, prev_represented) ==
    LET curr_call == cs[k]
        actual_reference_base == RefBase(Begin(curr_call.region))
        is_padded == Front(curr_call.ref) = "#"
        new_allele(s, i) ==
            LET old == curr_call.genotype[s][i]
                prev == prev_represented[s][i]
            IN IF old = <<>> THEN Repeat(region_size(curr_call.region), "*")
               ELSE IF ~is_padded \/ Front(old) # "#" THEN old
               ELSE IF /\ prev # 0
                       /\ begins_before(cs[prev].region, curr_call.region)
                       /\ are_in_phase(curr_call.phase[s], cs[prev].region)
                       /\ overlaps(cs[prev].region, curr_call.region)
               THEN Fill(old, IntMin(region_size(overlapped_region(cs[prev].region,
                                                                   curr_call.region)),
                                     Len(old)), "*")
               ELSE ReplaceFront(old, actual_reference_base)
        slots == {x \in Samples \X (1 .. Ploidy) :
                    /\ is_padded
                    /\ curr_call.genotype[x[1]][x[2]] # <<>>
                    /\ Front(curr_call.genotype[x[1]][x[2]]) = "#"}
        \* emplace keeps the first replacement of an allele
        first_slot(old) ==
            CHOOSE x \in slots :
                /\ curr_call.genotype[x[1]][x[2]] = old
                /\ \A y \in slots : curr_call.genotype[y[1]][y[2]] = old =>
                       x[1] < y[1] \/ (x[1] = y[1] /\ x[2] <= y[2])
        with_ref ==
            IF is_padded
            THEN replace(curr_call, curr_call.ref,
                         ReplaceFront(curr_call.ref, actual_reference_base))
            ELSE curr_call
        with_alt ==
            IF \E x \in slots : curr_call.genotype[x[1]][x[2]] = with_ref.alt
            THEN [with_ref EXCEPT
                     !.alt = new_allele(first_slot(with_ref.alt)[1],
                                        first_slot(with_ref.alt)[2])]
            ELSE with_ref
    IN [with_alt EXCEPT !.genotype =
           [s \in Samples |-> [i \in 1 .. Ploidy |-> new_allele(s, i)]]]

\* lines 345-440
RECURSIVE resolve_tail(_, _, _, _)
resolve_tail(cs, k, bend, prev_represented) ==
    IF k >= bend THEN cs
    ELSE LET call == resolve_tail_call(cs, k, prev_represented)
             next_represented ==
                 [s \in Samples |-> [i \in 1 .. Ploidy |->
                     IF /\ ~HasBase(call.genotype[s][i], "*")
                        /\ is_represented(call, call.genotype[s][i])
                     THEN k ELSE prev_represented[s][i]]]
         IN resolve_tail([cs EXCEPT ![k] = call], k + 1, bend, next_represented)

\* lines 470-499
extract_all_genotyped_alleles(call) ==
    {call.genotype[s][i] : s \in Samples, i \in 1 .. Ploidy} \ {<<".">>}

\* lines 501-511
set_alt_alleles(call) == extract_all_genotyped_alleles(call) \ {call.ref}

\* lines 561-566 and 679-684: the PS field, 0 when the sample is not phased
phase_set_field(call) ==
    [s \in Samples |-> IF call.phase[s] = NoRegion THEN 0 ELSE Begin(call.phase[s]) + 1]

\* Call::is_phased and Call::all_phased over the phase calls of the samples
is_phased(phase, s) == phase[s] # NoRegion
all_phased(phase) == \A s \in DOMAIN phase : is_phased(phase, s)

\* lines 545-568 and 662-686: the FORMAT keys of the record and the keys every
\* sample is given a value for
set_format(phase, no_samples) ==
    IF no_samples
    THEN [format |-> <<>>, samples |-> [s \in DOMAIN phase |-> {}]]
    ELSE [format |-> IF all_phased(phase)
                     THEN <<"GT", "GQ", "DP", "BQ", "MQ", "PS", "PQ">>
                     ELSE <<"GT", "GQ", "DP", "BQ", "MQ">>,
          samples |-> [s \in DOMAIN phase |->
                          {"GT", "GQ", "DP", "BQ", "MQ"} \cup
                          (IF is_phased(phase, s) THEN {"PS", "PQ"} ELSE {})]]

\* lines 513-522 and 674: every genotype is set with Phasing::phased
set_vcf_genotype(call) == [s \in Samples |-> "|"]

\* maths::round(score, 2) of a score in thousandths
round(score) == ((score + 5) \div 10) * 10
\* 5000.0 in thousandths
MaxQual == 5000000
\* lines 533 and 650 without std::min
set_qual_uncapped(score) == round(score)

\* lines 533 and 650
set_qual(score) == IntMin(MaxQual, round(score))

\* lines 524-573: the record of one call
make_record(call) ==
    [pos |-> Begin(call.region) + 1,
     ref |-> call.ref,
     alt |-> set_alt_alleles(call),
     qual |-> set_qual(call.quality),
     format |-> set_format(call.phase, FALSE).format,
     sample_format |-> set_format(call.phase, FALSE).samples,
     genotype |-> call.genotype,
     phasing |-> set_vcf_genotype(call),
     PS |-> phase_set_field(call),
     calls |-> <<call>>,
     in_block |-> FALSE]

\* lines 613-634: the genotype of a record that merges several calls
RECURSIVE resolve_genotypes(_, _, _)
resolve_genotypes(resolved, segment, ref) ==
    IF segment = <<>> THEN resolved
    ELSE resolve_genotypes(
             [s \in Samples |-> [i \in 1 .. Ploidy |->
                 LET seq == segment[1].genotype[s][i]
                     curr == resolved[s][i]
                 IN IF \/ Len(seq) < Len(curr)
                       \/ /\ seq # <<>>
                          /\ (Front(seq) = "." \/ Front(seq) = "*" \/ seq = ref)
                    THEN curr ELSE seq]],
             Tail(segment), ref)

\* lines 594-693
make_segment(segment) ==
    IF Len(segment) = 1 THEN make_record(segment[1])
    ELSE LET ref == segment[1].ref
             resolved_genotypes == resolve_genotypes(segment[1].genotype, Tail(segment), ref)
             \* lines 648-649: std::min_element by quality
             q == CHOOSE k \in 1 .. Len(segment) :
                      \A j \in 1 .. Len(segment) :
                          /\ segment[k].quality <= segment[j].quality
                          /\ segment[j].quality = segment[k].quality => k <= j
         IN [pos |-> Begin(segment[1].region) + 1,
             ref |-> ref,
             alt |-> ({resolved_genotypes[s][i] : s \in Samples, i \in 1 .. Ploidy}
                        \ {<<".">>}) \ {ref},
             qual |-> set_qual(segment[q].quality),
             format |-> set_format(segment[1].phase, FALSE).format,
             sample_format |-> set_format(segment[1].phase, FALSE).samples,
             genotype |-> resolved_genotypes,
             phasing |-> set_vcf_genotype(segment[1]),
             PS |-> phase_set_field(segment[1]),
             calls |-> segment,
             in_block |-> FALSE]

\* segment_by_begin and then segment_by_end: runs of calls of one region
RECURSIVE segment_by_region(_)
segment_by_region(section) ==
    IF section = <<>> THEN <<>>
    ELSE LET others == {k \in 1 .. Len(section) : section[k].region # section[1].region}
             n == IF others = {} THEN Len(section) ELSE SetMin(others) - 1
         IN <<SubSeq(section, 1, n)>> \o
            segment_by_region(SubSeq(section, n + 1, Len(section)))

\* lines 231-240 without the replacement of line 235
make_isolated_unreplaced(call) ==
    make_record(replace_uncalled_genotype_alleles(call, <<".">>, "N"))

\* lines 231-240: the record of a call that overlaps no neighbour
make_isolated(call) ==
    make_record(replace_uncalled_genotype_alleles(
                    replace_base(call, "#", RefBase(Begin(call.region))), <<".">>, "N"))

\* lines 242-462: the records of the block of calls bb .. bend-1
make_block(cs, bb, bend) ==
    LET hend == block_head_end(cs, bb)
        base == block_base(cs, bb, hend)
        heads == [k \in bb .. (hend - 1) |-> resolve_head_call(cs[k], base)]
        RECURSIVE collect(_)
        collect(k) == IF k >= hend THEN <<>> ELSE heads[k].duplicates \o collect(k + 1)
        duplicates == collect(bb)
        resolved_head == [k \in 1 .. Len(cs) |->
                             IF k \in bb .. (hend - 1) THEN heads[k].call ELSE cs[k]]
        marked == mark_head(resolved_head, hend - 2, bb)
        resolved == resolve_tail(marked, hend, bend,
                                 initial_prev_represented(marked, bb, hend))
        block == [k \in 1 .. (bend - bb) |->
                     replace_uncalled_genotype_alleles(resolved[bb + k - 1], <<".">>, "*")]
        segments == segment_by_region(Merge(block, duplicates))
    IN [k \in 1 .. Len(segments) |-> [make_segment(segments[k]) EXCEPT !.in_block = TRUE]]

\* lines 231-464
RECURSIVE make_from(_, _)
make_from(cs, call_itr) ==
    IF call_itr > Len(cs) THEN <<>>
    ELSE LET bb == adjacent_overlap_find(cs, call_itr)
             isolated == [k \in 1 .. (IntMin(bb, Len(cs) + 1) - call_itr) |->
                             make_isolated(cs[call_itr + k - 1])]
         IN IF bb > Len(cs) THEN isolated
            ELSE isolated \o make_block(cs, bb, find_next_mutually_exclusive(cs, bb))
                          \o make_from(cs, find_next_mutually_exclusive(cs, bb))

\* lines 220-466: the records, or the InconsistentCallError thrown
make(cs) ==
    LET resolved == resolve_indel_genotypes(cs)
        padded == pad_indels(resolved.calls)
    IN IF resolved.error
       THEN [error |-> TRUE, what |-> resolved.what, calls |-> cs, records |-> <<>>]
       ELSE [error |-> FALSE, what |-> NoError, calls |-> padded,
             records |-> make_from(padded, 1)]

\* ---- the FORMAT block of a record, for several samples

\* the number of samples of the factory
FormatSamples == 3

\* a call whose samples each have a phase call or none
InitFormat ==
    /\ fmt_pc = "start"
    /\ sites_only \in BOOLEAN
    /\ fmt_phase \in [1 .. FormatSamples ->
                        {NoRegion} \cup {Region(0, k) : k \in 1 .. FactoryLen}]
    /\ fmt_record = [format |-> <<>>, samples |-> <<>>]
    /\ CallIdle
    /\ TrioIdle
    /\ FactoryIdle
    /\ RefIdle
    /\ TcIdle
    /\ CancelIdle
    /\ MainIdle
    /\ PhredIdle
    /\ RemoveIdle
    /\ PendingIdle
    /\ FlankIdle
    /\ DsIdle
    /\ CtIdle

\* lines 545-568
MakeFormat ==
    /\ fmt_pc = "start"
    /\ fmt_record' = set_format(fmt_phase, sites_only)
    /\ fmt_pc' = "done"
    /\ UNCHANGED <<sites_only, fmt_phase>>
    /\ UNCHANGED <<callVars, trioVars, factoryVars, refVars, tcVars, cancelVars, mainVars, phredVars, removeVars, pendingVars, flankVars, dsVars, ctVars>>

NextFormat == MakeFormat

SpecFormat == InitFormat /\ [][NextFormat]_vars

\* ---- VariantCaller::set_phasing, variant_caller.cpp lines 309-334

\* the phase region of the sample that holds the call region
find_phase_region(regions, r) ==
    LET found == {k \in 1 .. Len(regions) : contains(regions[k], r)}
    IN IF found = {} THEN NoRegion ELSE regions[SetMin(found)]

\* lines 309-318: the region of the first call in the phase region is recorded
set_phase(phase, call_regions) ==
    SelectSeq(call_regions, LAMBDA r : overlaps(r, phase))[1]

\* lines 320-334
set_phasing(cs, regions) ==
    LET call_regions == [k \in 1 .. Len(cs) |-> cs[k].region]
    IN [k \in 1 .. Len(cs) |->
           [cs[k] EXCEPT !.phase =
               [s \in Samples |->
                   LET phase == find_phase_region(regions[s], cs[k].region)
                   IN IF phase = NoRegion THEN cs[k].phase[s]
                      ELSE set_phase(phase, call_regions)]]]

\* the Phred qualities of the calls, by position in the list: rising or
\* falling, the largest above the cap
CallQualities ==
    LET rising == [k \in 1 .. MaxCalls |->
                      IF k = MaxCalls THEN MaxQual + 1234 ELSE 1111 * k + 123]
    IN {rising, [k \in 1 .. MaxCalls |-> rising[MaxCalls + 1 - k]]}

\* the calls of a caller for the variants V, and the phaser's regions
InitFactory ==
    /\ factory_pc = "called"
    /\ vcf_records = <<>>
    /\ factory_error = NoError
    /\ phase_regions \in [Samples -> PhaserOutputs]
    /\ \E V \in {S \in SUBSET Catalog : Cardinality(S) \in 1 .. MaxCalls} :
           \E variants \in SortedLists(V) :
               \E genotypes \in [Samples -> [1 .. Ploidy -> {h \in SUBSET V : IsHaplotype(h)}]],
                  qualities \in CallQualities :
                   wrapped_calls = [k \in 1 .. Len(variants) |->
                                       MakeVariantCall(variants[k], genotypes, qualities[k])]
    /\ CallIdle
    /\ TrioIdle
    /\ AuxIdle

\* variant_caller.cpp line 543
SetPhasing ==
    /\ factory_pc = "called"
    /\ wrapped_calls' = set_phasing(wrapped_calls, phase_regions)
    /\ factory_pc' = "phased"
    /\ UNCHANGED <<phase_regions, vcf_records, factory_error>>
    /\ UNCHANGED <<callVars, trioVars, auxVars>>

\* variant_caller.cpp lines 344-354, vcf_record_factory.cpp lines 220-466
Make ==
    /\ factory_pc = "phased"
    /\ LET made == make(wrapped_calls)
       IN /\ factory_pc' = IF made.error THEN "InconsistentCallError" ELSE "made"
          /\ wrapped_calls' = made.calls
          /\ vcf_records' = made.records
          /\ factory_error' = made.what
    /\ UNCHANGED phase_regions
    /\ UNCHANGED <<callVars, trioVars, auxVars>>

NextFactory == SetPhasing \/ Make

SpecFactory == InitFactory /\ [][NextFactory]_vars

\* ------------------------------------------------------------- properties

\* what is left to do: the candidates right of the generator's frontier, then
\* the position in the loop body
PcRank ==
    CASE pc = "progress" -> 1
      [] pc = "emit" -> 2
      [] pc = "advance" -> 3
      [] pc = "phase" -> 4
      [] pc = "infer" -> 5
      [] pc = "filter" -> 6
      [] OTHER -> 0
Measure ==
    CASE pc = "done" -> 0
      [] pc = "start" -> 7 * (RegionLen + 1)
      [] OTHER -> 7 * Cardinality(NovelAlleles(generator)) + PcRank

\* ---------------------------------------------------------------------------
\* main() and Octopus::Options::parse_options
\* ---------------------------------------------------------------------------

EXIT_SUCCESS == 0
EXIT_FAILURE == 1

OptionNames == {"help", "version", "reads", "reads-file", "maternal-sample",
                "paternal-sample", "make-positional-refcalls", "make-blocked-refcalls"}
Callers == {"population", "individual", "trio"}

\* boost::none
NoOptions == [parsed |-> FALSE, count |-> {}, caller |-> ""]

\* program_options.cpp lines 55-60; a bool_switch is not defaulted when given
conflicting_options(vm, opt1, opt2) == opt1 \in vm.count /\ opt2 \in vm.count

\* program_options.cpp lines 360-393
parse_options(av) ==
    LET vm == [parsed |-> TRUE, count |-> av.given, caller |-> av.caller]
    IN IF "help" \in vm.count THEN vm
       ELSE IF "version" \in vm.count THEN vm
       ELSE IF "reads" \notin vm.count /\ "reads-file" \notin vm.count THEN NoOptions
       ELSE IF /\ vm.caller = "trio"
               /\ ("maternal-sample" \notin vm.count \/ "paternal-sample" \notin vm.count)
            THEN NoOptions
       ELSE IF conflicting_options(vm, "make-positional-refcalls", "make-blocked-refcalls")
            THEN NoOptions
       ELSE vm

\* program_options.cpp lines 396-399
is_run_command(vm) == "help" \notin vm.count /\ "version" \notin vm.count

InitMain ==
    /\ main_pc = "start"
    /\ argv \in [given : SUBSET OptionNames, caller : Callers]
    /\ options = NoOptions
    /\ run_outcome = "not started"
    /\ exit_code = 0
    /\ CallIdle
    /\ TrioIdle
    /\ FactoryIdle
    /\ RefIdle
    /\ FmtIdle
    /\ TcIdle
    /\ CancelIdle
    /\ PhredIdle
    /\ RemoveIdle
    /\ PendingIdle
    /\ FlankIdle
    /\ DsIdle
    /\ CtIdle

\* main.cpp lines 30-31: the options main() works with
ParseOptions ==
    /\ main_pc = "start"
    /\ options' = parse_options(argv)
    /\ main_pc' = "parsed"
    /\ UNCHANGED <<argv, run_outcome, exit_code>>
    /\ UNCHANGED <<callVars, trioVars, factoryVars, refVars, fmtVars, tcVars, cancelVars, phredVars, removeVars, pendingVars, flankVars, dsVars, ctVars>>

\* main.cpp lines 33-45 and 49-55: the run, which ends or throws
RunOctopus ==
    /\ main_pc = "parsed"
    /\ options.parsed
    /\ is_run_command(options)
    /\ \E outcome \in {"finished", "std::exception", "unknown error"} :
          /\ run_outcome' = outcome
          /\ exit_code' = IF outcome = "finished" THEN EXIT_SUCCESS ELSE EXIT_FAILURE
    /\ main_pc' = "exit"
    /\ UNCHANGED <<argv, options>>
    /\ UNCHANGED <<callVars, trioVars, factoryVars, refVars, fmtVars, tcVars, cancelVars, phredVars, removeVars, pendingVars, flankVars, dsVars, ctVars>>

\* main.cpp lines 33-34, 46-48 and 57: no run command, or no options
ReturnWithoutRun ==
    /\ main_pc = "parsed"
    /\ ~(options.parsed /\ is_run_command(options))
    /\ exit_code' = EXIT_SUCCESS
    /\ main_pc' = "exit"
    /\ UNCHANGED <<argv, options, run_outcome>>
    /\ UNCHANGED <<callVars, trioVars, factoryVars, refVars, fmtVars, tcVars, cancelVars, phredVars, removeVars, pendingVars, flankVars, dsVars, ctVars>>

NextMain == ParseOptions \/ RunOctopus \/ ReturnWithoutRun

SpecMain == InitMain /\ [][NextMain]_vars


\* ---------------------------------------------------------------------------
\* Phred<double> (phred.hpp)
\* ---------------------------------------------------------------------------
\* A double is a finite number, an infinity or a NaN.  Scores are whole numbers
\* here; a probability is written by the score it stands for: the finite value
\* v of a probability means 10^(-v/10), so that v < 0 is a probability above
\* one, and the kinds "zero" and "negative" stand for 0 and for any p < 0.

MaxScore == 20

Finite(n) == [kind |-> "finite", v |-> n]
NaN == [kind |-> "nan", v |-> 0]
PlusInf == [kind |-> "inf", v |-> 1]
MinusInf == [kind |-> "inf", v |-> -1]

Doubles == {Finite(n) : n \in (-MaxScore) .. MaxScore} \cup {NaN, PlusInf, MinusInf}

\* operator< of double: false whenever an operand is a NaN
Less(a, b) ==
    /\ a.kind # "nan" /\ b.kind # "nan"
    /\ \/ a.kind = "finite" /\ b.kind = "finite" /\ a.v < b.v
       \/ a.kind = "inf" /\ a.v < 0 /\ b # a
       \/ b.kind = "inf" /\ b.v > 0 /\ b # a

\* the score of std::nextafter(0.0, 1.0), about 4.9e-324
MinProbabilityScore == 3233

Probabilities ==
    {Finite(n) : n \in (-MaxScore) .. MaxScore}
        \cup {Finite(MinProbabilityScore + 1), NaN,
              [kind |-> "zero", v |-> 0], [kind |-> "negative", v |-> 0]}

\* p < q for probabilities
ProbabilityLess(p, q) ==
    /\ p.kind # "nan" /\ q.kind # "nan"
    /\ \/ p.kind = "negative" /\ q.kind # "negative"
       \/ p.kind = "zero" /\ q.kind = "finite"
       \/ p.kind = "finite" /\ q.kind = "finite" /\ p.v > q.v

\* std::min(a, b) and std::max(a, b): (b < a) ? b : a and (a < b) ? b : a
std_min(a, b) == IF ProbabilityLess(b, a) THEN b ELSE a
std_max(a, b) == IF ProbabilityLess(a, b) THEN b ELSE a

\* -10 * std::log10(p) of a probability p > 0 or a NaN
minus_ten_log10(p) == IF p.kind = "nan" THEN NaN ELSE Finite(p.v)

\* lines 33-38: Phred(Q score)
PhredFromScore(score) ==
    IF Less(score, Finite(0))
    THEN [thrown |-> "std::domain_error", score_ |-> Finite(0)]
    ELSE [thrown |-> "none", score_ |-> score]

\* lines 40-49: Phred(Probability error)
PhredFromProbability(error) ==
    IF ProbabilityLess(error, [kind |-> "zero", v |-> 0])
    THEN [thrown |-> "std::domain_error", score_ |-> Finite(0)]
    ELSE [thrown |-> "none",
          score_ |-> minus_ten_log10(std_max(std_min(error, Finite(0)),
                                             Finite(MinProbabilityScore)))]

InitPhred ==
    /\ phred_pc = "start"
    /\ phred_input \in
          [op : {"default", "score"}, arg : Doubles]
              \cup [op : {"extract"}, arg : {d \in Doubles : d.kind = "finite"}]
              \cup [op : {"probability"}, arg : Probabilities]
    /\ phred_input.op = "default" => phred_input.arg = Finite(0)
    /\ phred_thrown = "none"
    /\ score_ = Finite(0)
    /\ CallIdle
    /\ TrioIdle
    /\ FactoryIdle
    /\ RefIdle
    /\ FmtIdle
    /\ TcIdle
    /\ CancelIdle
    /\ MainIdle
    /\ RemoveIdle
    /\ PendingIdle
    /\ FlankIdle
    /\ DsIdle
    /\ CtIdle

\* line 31: Phred() = default leaves score_ without a value, so that reading
\* it gives any double
DefaultConstruct ==
    /\ phred_pc = "start"
    /\ phred_input.op = "default"
    /\ score_' \in Doubles
    /\ phred_pc' = "constructed"
    /\ UNCHANGED <<phred_input, phred_thrown>>
    /\ UNCHANGED <<callVars, trioVars, factoryVars, refVars, fmtVars, tcVars, cancelVars, mainVars, removeVars, pendingVars, flankVars, dsVars, ctVars>>

\* lines 33-38
ConstructFromScore ==
    /\ phred_pc = "start"
    /\ phred_input.op = "score"
    /\ LET made == PhredFromScore(phred_input.arg)
       IN /\ phred_thrown' = made.thrown
          /\ score_' = made.score_
          /\ phred_pc' = IF made.thrown = "none" THEN "constructed" ELSE "thrown"
    /\ UNCHANGED phred_input
    /\ UNCHANGED <<callVars, trioVars, factoryVars, refVars, fmtVars, tcVars, cancelVars, mainVars, removeVars, pendingVars, flankVars, dsVars, ctVars>>

\* lines 40-49
ConstructFromProbability ==
    /\ phred_pc = "start"
    /\ phred_input.op = "probability"
    /\ LET made == PhredFromProbability(phred_input.arg)
       IN /\ phred_thrown' = made.thrown
          /\ score_' = made.score_
          /\ phred_pc' = IF made.thrown = "none" THEN "constructed" ELSE "thrown"
    /\ UNCHANGED phred_input
    /\ UNCHANGED <<callVars, trioVars, factoryVars, refVars, fmtVars, tcVars, cancelVars, mainVars, removeVars, pendingVars, flankVars, dsVars, ctVars>>

\* lines 108-115: operator>> reads a double and assigns Phred<Q> {value}
Extract ==
    /\ phred_pc = "start"
    /\ phred_input.op = "extract"
    /\ LET made == PhredFromScore(phred_input.arg)
       IN /\ phred_thrown' = made.thrown
          /\ score_' = made.score_
          /\ phred_pc' = IF made.thrown = "none" THEN "constructed" ELSE "thrown"
    /\ UNCHANGED phred_input
    /\ UNCHANGED <<callVars, trioVars, factoryVars, refVars, fmtVars, tcVars, cancelVars, mainVars, removeVars, pendingVars, flankVars, dsVars, ctVars>>

\* lines 51-54: the copy of an object holds its score
Copy ==
    /\ phred_pc = "constructed"
    /\ phred_pc' = "copied"
    /\ UNCHANGED <<phred_input, phred_thrown, score_>>
    /\ UNCHANGED <<callVars, trioVars, factoryVars, refVars, fmtVars, tcVars, cancelVars, mainVars, removeVars, pendingVars, flankVars, dsVars, ctVars>>

NextPhred ==
    DefaultConstruct \/ ConstructFromScore \/ ConstructFromProbability \/ Extract \/ Copy

SpecPhred == InitPhred /\ [][NextPhred]_vars


\* ---------------------------------------------------------------------------
\* VariantCaller::call, lines 558-571, with the haplotype posteriors
\* ---------------------------------------------------------------------------

PosteriorHaplotypes == 3

\* posteriors around min_haplotype_posterior_, in units of 1e-16
PosteriorLevels ==
    {0, min_haplotype_posterior_ - 1, min_haplotype_posterior_,
     min_haplotype_posterior_ + 1}

InitRemove ==
    /\ rm_pc = "inferred"
    /\ haplotype_posteriors \in [1 .. PosteriorHaplotypes -> PosteriorLevels]
    /\ next_has_passed \in BOOLEAN
    /\ generator_calls = <<>>
    /\ CallIdle
    /\ TrioIdle
    /\ FactoryIdle
    /\ RefIdle
    /\ FmtIdle
    /\ TcIdle
    /\ CancelIdle
    /\ MainIdle
    /\ PhredIdle
    /\ PendingIdle
    /\ FlankIdle
    /\ DsIdle
    /\ CtIdle

\* lines 558-571
TellAndRemove ==
    /\ rm_pc = "inferred"
    /\ LET tell == [op |-> "tell_next_active_region", haplotypes |-> {}]
           removable_haplotypes == get_removable_haplotypes(haplotype_posteriors)
       IN generator_calls' =
              IF next_has_passed THEN <<tell>>
              ELSE <<tell, [op |-> "remove", haplotypes |-> removable_haplotypes], tell>>
    /\ rm_pc' = "told"
    /\ UNCHANGED <<haplotype_posteriors, next_has_passed>>
    /\ UNCHANGED <<callVars, trioVars, factoryVars, refVars, fmtVars, tcVars, cancelVars, mainVars, phredVars, pendingVars, flankVars, dsVars, ctVars>>

NextRemove == TellAndRemove

SpecRemove == InitRemove /\ [][NextRemove]_vars


\* ---------------------------------------------------------------------------
\* calculate_flank_regions, lines 196-232
\* ---------------------------------------------------------------------------

FlankLen == 4
MaxFlankCandidates == 3

\* candidates are written by their regions: insertions are empty, the others
\* cover one or two positions
FlankCandidateRegions ==
    {Region(b, e) : b \in 0 .. FlankLen, e \in 0 .. FlankLen} \cap
    {r \in (0 .. FlankLen) \X (0 .. FlankLen) : Begin(r) <= End(r) /\ End(r) <= Begin(r) + 2}


region_range(cs, r) == SelectSeq(cs, LAMBDA c : overlaps(c, r))

\* the first element of a sorted range
leftmost_mappable(cs) == cs[1]

\* std::max_element by end: the first of the elements that end last
rightmost_mappable(cs) ==
    cs[SetMin({k \in 1 .. Len(cs) : \A j \in 1 .. Len(cs) : End(cs[j]) <= End(cs[k])})]

expand_rhs(r, n) == Region(Begin(r), End(r) + n)
closed_region(l, r) == Region(Begin(l), End(r))

\* lines 196-232 without the two boundary adjustments
calculate_flank_regions_unshrunk(hap_region, active, cs) ==
    LET lhs0 == left_overhang_region(hap_region, active)
        rhs0 == right_overhang_region(hap_region, active)
        actives == region_range(cs, active)
        lhs_inactive == region_range(cs, lhs0)
        rhs_inactive == region_range(cs, rhs0)
    IN [lhs_flank |-> IF lhs_inactive = <<>> THEN head_region(lhs0)
                      ELSE closed_region(lhs0, rightmost_mappable(lhs_inactive)),
        rhs_flank |-> IF rhs_inactive = <<>> THEN tail_region(rhs0)
                      ELSE closed_region(leftmost_mappable(rhs_inactive), rhs0),
        active_candidates |-> actives,
        lhs_inactive_candidates |-> lhs_inactive,
        rhs_inactive_candidates |-> rhs_inactive]

\* lines 196-232
calculate_flank_regions(hap_region, active, cs) ==
    LET lhs0 == left_overhang_region(hap_region, active)
        rhs0 == right_overhang_region(hap_region, active)
        actives == region_range(cs, active)
        lhs1 == IF is_empty(leftmost_mappable(actives)) /\ ~is_empty(lhs0)
                THEN expand_rhs(lhs0, -1) ELSE lhs0
        lhs_inactive == region_range(cs, lhs1)
        rhs1 == IF is_empty(rightmost_mappable(actives)) /\ ~is_empty(rhs0)
                THEN expand_lhs(rhs0, -1) ELSE rhs0
        rhs_inactive == region_range(cs, rhs1)
    IN [lhs_flank |-> IF lhs_inactive = <<>> THEN head_region(lhs1)
                      ELSE closed_region(lhs1, rightmost_mappable(lhs_inactive)),
        rhs_flank |-> IF rhs_inactive = <<>> THEN tail_region(rhs1)
                      ELSE closed_region(leftmost_mappable(rhs_inactive), rhs1),
        active_candidates |-> actives,
        lhs_inactive_candidates |-> lhs_inactive,
        rhs_inactive_candidates |-> rhs_inactive]

\* the haplotypes cover the active region; some candidate is active (line 206)
InitFlank ==
    /\ flank_pc = "start"
    /\ flank_haplotype_region \in (0 .. FlankLen) \X (0 .. FlankLen)
    /\ flank_active_region \in (0 .. FlankLen) \X (0 .. FlankLen)
    /\ Begin(flank_active_region) < End(flank_active_region)
    /\ contains(flank_haplotype_region, flank_active_region)
    /\ \E S \in SUBSET FlankCandidateRegions :
           /\ Cardinality(S) <= MaxFlankCandidates
           /\ flank_candidates = SortRegions(S)
    /\ region_range(flank_candidates, flank_active_region) # <<>>
    /\ flanks = NoFlanks
    /\ CallIdle
    /\ TrioIdle
    /\ FactoryIdle
    /\ RefIdle
    /\ FmtIdle
    /\ TcIdle
    /\ CancelIdle
    /\ MainIdle
    /\ PhredIdle
    /\ RemoveIdle
    /\ PendingIdle
    /\ DsIdle
    /\ CtIdle

CalculateFlankRegions ==
    /\ flank_pc = "start"
    /\ flanks' = calculate_flank_regions(flank_haplotype_region, flank_active_region,
                                         flank_candidates)
    /\ flank_pc' = "done"
    /\ UNCHANGED <<flank_haplotype_region, flank_active_region, flank_candidates>>
    /\ UNCHANGED <<callVars, trioVars, factoryVars, refVars, fmtVars, tcVars, cancelVars, mainVars, phredVars, removeVars, pendingVars, dsVars, ctVars>>

NextFlank == CalculateFlankRegions

SpecFlank == InitFlank /\ [][NextFlank]_vars


\* ---------------------------------------------------------------------------
\* Downsampler (readpipe/downsampling/downsampler.cpp); a read is written by
\* its region
\* ---------------------------------------------------------------------------

DsLen == 3
MaxReads == 4
MaxTrigger == 2

ReadRegions ==
    {r \in (0 .. DsLen) \X (0 .. DsLen) : Begin(r) < End(r)}

\* the order of the reads in a ReadContainer
ReadLess(l, r) == Begin(l) < Begin(r) \/ (Begin(l) = Begin(r) /\ End(l) < End(r))

is_sorted(rs) == \A k \in 1 .. (Len(rs) - 1) : ~ReadLess(rs[k + 1], rs[k])

RECURSIVE std_sort(_)
std_sort(rs) ==
    IF rs = <<>> THEN <<>>
    ELSE LET k == CHOOSE i \in 1 .. Len(rs) : \A j \in 1 .. Len(rs) : ~ReadLess(rs[j], rs[i])
         IN <<rs[k]>> \o std_sort(SubSeq(rs, 1, k - 1) \o SubSeq(rs, k + 1, Len(rs)))

\* the position at offset k (from 1) of a region
PositionAt(r, k) == Region(Begin(r) + k - 1, Begin(r) + k)

\* the number of reads of rs over each position of the region
calculate_positional_coverage(rs, r) ==
    [k \in 1 .. region_size(r) |->
        Cardinality({j \in 1 .. Len(rs) : overlaps(rs[j], PositionAt(r, k))})]

\* the maximal runs of positions of the encompassing region of the reads
\* whose coverage is above max_coverage
find_high_coverage_regions(rs, max_coverage) ==
    LET lo == SetMin({Begin(rs[k]) : k \in 1 .. Len(rs)})
        hi == SetMax({End(rs[k]) : k \in 1 .. Len(rs)})
        depth(q) == Cardinality({j \in 1 .. Len(rs) : overlaps(rs[j], Region(q, q + 1))})
        high(q) == q >= lo /\ q < hi /\ depth(q) > max_coverage
        runs == {r \in (lo .. hi) \X (lo .. hi) :
                    /\ Begin(r) < End(r)
                    /\ \A q \in Begin(r) .. (End(r) - 1) : high(q)
                    /\ ~high(Begin(r) - 1)
                    /\ ~high(End(r))}
    IN SortRegions(runs)

has_contained(rs, r) == \E k \in 1 .. Len(rs) : contains(r, rs[k])

\* lines 176-190
find_target_regions(rs, max_coverage, min_coverage) ==
    LET above_max_coverage_regions == find_high_coverage_regions(rs, max_coverage)
    IN IF above_max_coverage_regions = <<>> THEN <<>>
       ELSE SelectSeq(find_high_coverage_regions(rs, min_coverage),
                      LAMBDA r : has_contained(above_max_coverage_regions, r))

\* bases(contained_range(begin(reads), end(reads), region)): from the first to
\* past the last read that the region contains; empty, at the first read that
\* does not begin before the region, when it contains none
contained_bases(rs, r) ==
    LET inside == {k \in 1 .. Len(rs) : contains(r, rs[k])}
        later == {k \in 1 .. Len(rs) : ~begins_before(rs[k], r)}
        lower_bound == IF later = {} THEN Len(rs) + 1 ELSE SetMin(later)
    IN IF inside = {} THEN [first |-> lower_bound, last |-> lower_bound]
       ELSE [first |-> SetMin(inside), last |-> SetMax(inside) + 1]

\* lines 42-46
has_minimum_coverage(coverages) == \A k \in 1 .. Len(coverages) : coverages[k] = 0

\* lines 48-58 with the cap left out
calculate_minimum_coverages_uncapped(rs, r, min_coverage) ==
    [k \in 1 .. region_size(r) |-> min_coverage]

\* lines 48-58
calculate_minimum_coverages(rs, r, min_coverage) ==
    LET coverages == calculate_positional_coverage(rs, r)
    IN [k \in 1 .. Len(coverages) |-> IntMin(coverages[k], min_coverage)]

\* lines 74-87: the unsampled reads over the position at offset k
sample_candidates(rs, first, last, r, k) ==
    {j \in first .. (last - 1) : overlaps(rs[j], PositionAt(r, k))}

\* lines 89-97
reduce(coverages, read, r) ==
    LET read_offset == begin_distance(r, read)
        first == read_offset + 1
        last == IntMin(read_offset + region_size(read), Len(coverages))
    IN [k \in 1 .. Len(coverages) |->
           IF k >= first /\ k <= last /\ coverages[k] > 0
           THEN coverages[k] - 1 ELSE coverages[k]]

\* lines 99-103: the first element of first .. last - 1 goes to the back
shift_left(rs, first, last) ==
    [k \in 1 .. Len(rs) |->
        IF k < first \/ k >= last THEN rs[k]
        ELSE IF k = last - 1 THEN rs[first] ELSE rs[k + 1]]

\* lines 105-111: the last element of first .. last - 1 goes to the front
shift_right(rs, first, last) ==
    [k \in 1 .. Len(rs) |->
        IF k < first \/ k >= last THEN rs[k]
        ELSE IF k = first THEN rs[last - 1] ELSE rs[k - 1]]

\* lines 113-130
remove_sample(rs, first, sample, last) ==
    IF sample - first < last - sample
    THEN [reads |-> IF sample # first THEN shift_right(rs, first, sample + 1) ELSE rs,
          first |-> first + 1, last |-> last]
    ELSE [reads |-> IF sample # last - 1 THEN shift_left(rs, sample, last) ELSE rs,
          first |-> first, last |-> last - 1]

\* lines 132-143
extract_sampled(rs, first, last) ==
    std_sort(SubSeq(rs, 1, first - 1) \o SubSeq(rs, last, Len(rs)))

RECURSIVE SortedReadSeqs(_)
SortedReadSeqs(n) ==
    IF n = 0 THEN {<<>>}
    ELSE LET shorter == SortedReadSeqs(n - 1)
             longer == {x \in shorter \X ReadRegions :
                           /\ Len(x[1]) = n - 1
                           /\ is_sorted(Append(x[1], x[2]))}
         IN shorter \cup {Append(x[1], x[2]) : x \in longer}

\* lines 249-256: the constructor keeps the target at or below the trigger
InitDownsample ==
    /\ ds_pc = "start"
    /\ trigger_coverage_ \in 1 .. MaxTrigger
    /\ target_coverage_ \in 0 .. trigger_coverage_
    /\ input_reads \in {rs \in SortedReadSeqs(MaxReads) : rs # <<>>}
    /\ reads = input_reads
    /\ targets = <<>>
    /\ target_index = 0
    /\ sample_reads = <<>>
    /\ first_unsampled = 0
    /\ last_unsampled = 0
    /\ required_coverage = <<>>
    /\ num_iterations = 0
    /\ sampled_read_blocks = <<>>
    /\ unsampled_read_blocks = <<>>
    /\ CallIdle
    /\ TrioIdle
    /\ FactoryIdle
    /\ RefIdle
    /\ FmtIdle
    /\ TcIdle
    /\ CancelIdle
    /\ MainIdle
    /\ PhredIdle
    /\ RemoveIdle
    /\ PendingIdle
    /\ FlankIdle
    /\ CtIdle

\* lines 194-201
FindTargets ==
    /\ ds_pc = "start"
    /\ targets' = find_target_regions(reads, trigger_coverage_, target_coverage_)
    /\ target_index' = Len(targets')
    /\ ds_pc' = IF targets' = <<>> THEN "done" ELSE "target"
    /\ UNCHANGED <<trigger_coverage_, target_coverage_, input_reads, reads, sample_reads, first_unsampled, last_unsampled, required_coverage, num_iterations, sampled_read_blocks, unsampled_read_blocks>>
    /\ UNCHANGED <<callVars, trioVars, factoryVars, refVars, fmtVars, tcVars, cancelVars, mainVars, phredVars, removeVars, pendingVars, flankVars, ctVars>>

\* lines 218-221 and 151-160: the reads behind the target are set aside and
\* the sampling of the reads of the target is set up
BeginTarget ==
    /\ ds_pc = "target"
    /\ LET r == targets[target_index]
           contained == contained_bases(reads, r)
       IN /\ unsampled_read_blocks' =
                 Append(unsampled_read_blocks, SubSeq(reads, contained.last, Len(reads)))
          /\ sample_reads' = SubSeq(reads, contained.first, contained.last - 1)
          /\ required_coverage' =
                 IF sample_reads' = <<>> THEN <<>>
                 ELSE calculate_minimum_coverages(sample_reads', r, target_coverage_)
          /\ first_unsampled' = 1
          /\ last_unsampled' = Len(sample_reads') + 1
    /\ num_iterations' = 0
    /\ ds_pc' = "sampling"
    /\ UNCHANGED <<trigger_coverage_, target_coverage_, input_reads, reads, targets, target_index, sampled_read_blocks>>
    /\ UNCHANGED <<callVars, trioVars, factoryVars, refVars, fmtVars, tcVars, cancelVars, mainVars, phredVars, removeVars, pendingVars, flankVars, ctVars>>

\* lines 161-167: one iteration of the sampling loop; the position is drawn
\* with weight required_coverage, the read uniformly from the candidates.
\* With no candidate the draw is from an empty range.
SampleRead ==
    /\ ds_pc = "sampling"
    /\ ~has_minimum_coverage(required_coverage)
    /\ \E k \in {j \in 1 .. Len(required_coverage) : required_coverage[j] > 0} :
           LET r == targets[target_index]
               overlapped == sample_candidates(sample_reads, first_unsampled,
                                               last_unsampled, r, k)
           IN IF overlapped = {}
              THEN /\ ds_pc' = "undefined"
                   /\ UNCHANGED <<sample_reads, first_unsampled, last_unsampled, required_coverage, num_iterations>>
              ELSE \E sampled \in overlapped :
                       LET removed == remove_sample(sample_reads, first_unsampled,
                                                    sampled, last_unsampled)
                       IN /\ required_coverage' =
                                 reduce(required_coverage, sample_reads[sampled], r)
                          /\ sample_reads' = removed.reads
                          /\ first_unsampled' = removed.first
                          /\ last_unsampled' = removed.last
                          /\ num_iterations' = num_iterations + 1
                          /\ ds_pc' = "sampling"
    /\ UNCHANGED <<trigger_coverage_, target_coverage_, input_reads, reads, targets, target_index, sampled_read_blocks, unsampled_read_blocks>>
    /\ UNCHANGED <<callVars, trioVars, factoryVars, refVars, fmtVars, tcVars, cancelVars, mainVars, phredVars, removeVars, pendingVars, flankVars, ctVars>>

\* lines 168 and 222-230: the sampled reads are extracted and the reads of
\* the target and behind it are erased from the container
EndTarget ==
    /\ ds_pc = "sampling"
    /\ has_minimum_coverage(required_coverage)
    /\ LET r == targets[target_index]
           contained == contained_bases(reads, r)
           sampled_reads == IF sample_reads = <<>> THEN <<>>
                            ELSE extract_sampled(sample_reads, first_unsampled,
                                                 last_unsampled)
       IN /\ sampled_read_blocks' = Append(sampled_read_blocks, sampled_reads)
          /\ reads' = SubSeq(reads, 1, contained.first - 1)
    /\ target_index' = target_index - 1
    /\ ds_pc' = IF target_index' = 0 THEN "assemble" ELSE "target"
    /\ UNCHANGED <<trigger_coverage_, target_coverage_, input_reads, targets, sample_reads, first_unsampled, last_unsampled, required_coverage, num_iterations, unsampled_read_blocks>>
    /\ UNCHANGED <<callVars, trioVars, factoryVars, refVars, fmtVars, tcVars, cancelVars, mainVars, phredVars, removeVars, pendingVars, flankVars, ctVars>>

\* the blocks from the last to the first, each sampled block before its
\* unsampled block
RECURSIVE append_blocks(_, _, _, _)
append_blocks(buffer, sampled, unsampled, i) ==
    IF i = 0 THEN buffer
    ELSE append_blocks(buffer \o sampled[i] \o unsampled[i], sampled, unsampled, i - 1)

\* lines 233-244
Assemble ==
    /\ ds_pc = "assemble"
    /\ reads' = std_sort(append_blocks(reads, sampled_read_blocks, unsampled_read_blocks,
                                       Len(targets)))
    /\ ds_pc' = "done"
    /\ UNCHANGED <<trigger_coverage_, target_coverage_, input_reads, targets, target_index, sample_reads, first_unsampled, last_unsampled, required_coverage, num_iterations, sampled_read_blocks, unsampled_read_blocks>>
    /\ UNCHANGED <<callVars, trioVars, factoryVars, refVars, fmtVars, tcVars, cancelVars, mainVars, phredVars, removeVars, pendingVars, flankVars, ctVars>>

NextDownsample ==
    \/ FindTargets
    \/ BeginTarget
    \/ SampleRead
    \/ EndTarget
    \/ Assemble

SpecDownsample == InitDownsample /\ [][NextDownsample]_vars


\* ---------------------------------------------------------------------------
\* call_trio on posteriors with equal probabilities (trio_caller.cpp 837-864)
\* ---------------------------------------------------------------------------

NumTrios == 3

\* the probabilities a trio of the posterior vector can have
TiedWeights == {3, 5}

\* different trios whose father is homozygous for the reference, some of them
\* of the same probability
InitCallTrio ==
    /\ tc_pc = "start"
    /\ \E trios \in [1 .. NumTrios -> TrioGenotypes \X TrioGenotypes] :
       \E weights \in [1 .. NumTrios -> TiedWeights] :
           /\ \A j, k \in 1 .. NumTrios : j # k => trios[j] # trios[k]
           /\ trio_posteriors = [k \in 1 .. NumTrios |->
                                    [maternal |-> trios[k][1], paternal |-> HomRef,
                                     child |-> trios[k][2], probability |-> weights[k]]]
    /\ min_variant_posterior \in VariantThresholds
    /\ lower_variant_posterior = 0
    /\ min_denovo_posterior \in DenovoThresholds
    /\ tc_calls = {}
    /\ tc_calls_lower = {}
    /\ ct_germline_calls = {}
    /\ ct_denovo_calls = {}
    /\ called_trio = NoTrio
    /\ CallIdle
    /\ TrioIdle
    /\ FactoryIdle
    /\ RefIdle
    /\ FmtIdle
    /\ CancelIdle
    /\ MainIdle
    /\ PhredIdle
    /\ RemoveIdle
    /\ PendingIdle
    /\ FlankIdle
    /\ DsIdle

\* lines 1037-1056 of call_variants, up to the call of call_trio
CallTrio ==
    /\ tc_pc = "start"
    /\ LET called_alleles == call_alleles(trio_posteriors, min_variant_posterior)
           denovos == call_denovos(called_alleles, trio_posteriors, min_denovo_posterior)
           germline_alleles == get_germline_alleles(called_alleles, denovos)
           germline_variants == call_germline_variants(germline_alleles, trio_posteriors,
                                                       min_variant_posterior)
       IN /\ ct_germline_calls' = germline_variants
          /\ ct_denovo_calls' = denovos
          /\ \E order \in std_sort_orders(trio_posteriors) :
                 called_trio' = call_trio(trio_posteriors, order, germline_variants,
                                          denovos)
    /\ tc_pc' = "trio_called"
    /\ UNCHANGED <<trio_posteriors, min_variant_posterior, lower_variant_posterior, min_denovo_posterior, tc_calls, tc_calls_lower>>
    /\ UNCHANGED <<callVars, trioVars, factoryVars, refVars, fmtVars, cancelVars, mainVars, phredVars, removeVars, pendingVars, flankVars, dsVars>>

NextCallTrio == CallTrio

SpecCallTrio == InitCallTrio /\ [][NextCallTrio]_vars


IsSorted(records) ==
    \A i \in 1 .. (Len(records) - 1) : records[i][1] <= records[i + 1][1]
NoDuplicates(records) ==
    \A i, j \in 1 .. Len(records) : i # j => records[i] # records[j]

\* C2: the records returned by call() are sorted by position and no two of
\* them have the same position, reference and alternative allele.
C2_SortedUnique == pc = "done" => IsSorted(result) /\ NoDuplicates(result)

\* call() has returned records that are out of order
C2_Witness == pc = "done" /\ Len(result) >= 2 /\ ~IsSorted(result)

C4_CacheReleased ==
    pc \in {"progress", "phase", "advance", "emit", "done"} => haplotype_likelihoods = {}

\* progress() is about to be called with the previous step's entries in place
C4_Witness == pc = "progress" /\ haplotype_likelihoods # {}

\* C5 as stated: nothing changes the cache between populate() and
\* infer_latents().
C5_CacheImmutable ==
    [][pc = "filter" /\ pc' = "infer" => haplotype_likelihoods' = haplotype_likelihoods]_vars

\* C5: between populate() and clear() the cache changes only by the erase() of
\* the haplotypes the filter removed: infer_latents() is given exactly the
\* entries populate() computed for the haplotypes that are kept.
C5_CacheHoldsKept ==
    [][pc = "filter" /\ pc' = "infer" =>
            /\ haplotype_likelihoods' = haplotype_likelihoods \cap haplotypes'
            /\ haplotype_likelihoods' = haplotypes']_vars

\* infer_latents() is about to run on a cache the filter has erased one
\* haplotype from: progress() returns an even number of haplotypes
C5_Witness ==
    /\ pc = "infer"
    /\ haplotype_likelihoods = haplotypes
    /\ Cardinality(haplotypes) % 2 = 1

\* C10: with no candidates call() returns no variant record; it returns
\* reference calls if they are enabled and nothing if they are not.
C10_EmptyCandidates ==
    pc = "done" /\ candidates = {} /\ candidate_source = {} =>
        /\ \A i \in 1 .. Len(result) : result[i][3] = 0
        /\ refcalls_requested => result # <<>>
        /\ ~refcalls_requested => result = <<>>

\* call() returned with reference calls enabled and no candidates
C10_Witness ==
    pc = "done" /\ candidate_source = {} /\ refcalls_requested /\ result = <<>>


\* whether the constructor has returned without throwing
TrioAccepted == trio_pc \notin {"new", "logic_error", "BadPloidy"}
TrioWithinMax ==
    /\ maternal_ploidy <= trio_max_ploidy
    /\ paternal_ploidy <= trio_max_ploidy
    /\ child_ploidy <= trio_max_ploidy

\* C9 as stated: a triple within the maximum ploidy is accepted exactly when
\* the child has positive ploidy and at most one parent has ploidy 0, or the
\* child has ploidy 0 and both parents have positive ploidy.
C9_AcceptsAsStated ==
    trio_pc # "new" /\ TrioWithinMax =>
        (TrioAccepted <=>
            \/ child_ploidy > 0 /\ ~(maternal_ploidy = 0 /\ paternal_ploidy = 0)
            \/ child_ploidy = 0 /\ maternal_ploidy > 0 /\ paternal_ploidy > 0)

\* C9 amended: a triple within the maximum ploidy is accepted exactly when the
\* child has positive ploidy, or the child has ploidy 0 and exactly one parent
\* has positive ploidy; any other triple is rejected with a logic_error, and
\* no accepted triple fails the assertion of infer_latents.
C9_Accepts ==
    /\ trio_pc # "new" /\ TrioWithinMax =>
        /\ TrioAccepted <=>
            \/ child_ploidy > 0
            \/ child_ploidy = 0 /\ (maternal_ploidy > 0) # (paternal_ploidy > 0)
        /\ ~TrioAccepted => trio_pc = "logic_error"
    /\ trio_pc # "new" /\ ~TrioWithinMax => ~TrioAccepted
    /\ trio_pc # "assert_failed"

\* a child of ploidy 0 with one parent of positive ploidy has been accepted and
\* handed to the individual model
C9_Witness ==
    /\ trio_pc = "IndividualModel(mother)"
    /\ child_ploidy = 0
    /\ maternal_ploidy > 0
    /\ paternal_ploidy = 0


\* the records made, as a set
Records == {vcf_records[k] : k \in 1 .. Len(vcf_records)}
RecordAlleles(r) ==
    {r.ref} \cup r.alt \cup {r.genotype[s][i] : s \in Samples, i \in 1 .. Ploidy}

\* C6: no record made by VcfRecordFactory::make has the padding base '#' in
\* REF, in an ALT allele or in a genotype allele of a sample.
C6_NoPaddingBase ==
    factory_pc = "made" =>
        \A r \in Records : \A a \in RecordAlleles(r) : ~HasBase(a, "#")

\* a padded indel has been resolved in an overlapping block and one of its
\* calls was duplicated
C6_Witness ==
    /\ factory_pc = "made"
    /\ \E k \in 1 .. Len(wrapped_calls) : HasBase(wrapped_calls[k].ref, "#")
    /\ \E r \in Records : r.in_block /\ Len(r.ref) > 1
    /\ \E r \in Records : ~r.in_block /\ (\E a \in r.alt : Len(a) > 1)

\* a record describes an insertion or a deletion when REF or an ALT allele
\* is not a single base
IsIndelRecord(r) == Len(r.ref) # 1 \/ \E a \in r.alt : Len(a) # 1

\* C7 as stated: every record of an insertion or deletion has a non-empty REF
\* and non-empty ALT alleles that start with the first base of REF.
C7_LeftAnchoredAsStated ==
    factory_pc = "made" =>
        \A r \in Records : IsIndelRecord(r) =>
            /\ r.ref # <<>>
            /\ \A a \in r.alt : a # <<>> /\ a[1] = r.ref[1]


\* C7 amended: every record has a non-empty REF and non-empty ALT alleles; in
\* the record of an insertion or deletion that overlaps no other call every
\* ALT allele starts with the first base of REF, and in a record made from a
\* block of overlapping calls an ALT allele starts with the first base of REF,
\* with '*', or with the alternative base of the substitution called at the
\* position of the padding base.
C7_LeftAnchored ==
    factory_pc = "made" =>
        \A r \in Records :
            /\ r.ref # <<>>
            /\ \A a \in r.alt : a # <<>>
            /\ IsIndelRecord(r) /\ ~r.in_block => \A a \in r.alt : a[1] = r.ref[1]
            /\ IsIndelRecord(r) /\ r.in_block =>
                   \A a \in r.alt : a[1] \in {r.ref[1], "*", AltBase(r.pos - 1)}

\* an isolated indel record, and a block record whose ALT allele starts with
\* the base copied from the substitution at the padding position
C7_Witness ==
    /\ factory_pc = "made"
    /\ \E r \in Records : IsIndelRecord(r) /\ ~r.in_block /\ r.alt # {}
    /\ \E r \in Records :
           /\ IsIndelRecord(r) /\ r.in_block
           /\ \E a \in r.alt : Len(a) > 1 /\ a[1] = AltBase(r.pos - 1)

\* C8: for every sample, two calls of one phase set both lie inside the phase
\* region recorded for that set, before and after pad_indels has shifted calls.
C8_PhaseSetClosure ==
    factory_pc \in {"phased", "made"} =>
        \A s \in Samples : \A j, k \in 1 .. Len(wrapped_calls) :
            LET first_call == wrapped_calls[j]
                second_call == wrapped_calls[k]
            IN first_call.phase[s] # NoRegion /\ first_call.phase[s] = second_call.phase[s] =>
                   /\ contains(first_call.phase[s], first_call.region)
                   /\ contains(first_call.phase[s], second_call.region)

\* the positions and the maximal stretches of the uncalled region that no
\* variant call covers, and the number of generated alleles among S
RefUncovered == UncoveredPositions(ref_called, ref_region)
RefIntervals == SeqToSet(extract_intervening_regions(ref_called, ref_region))
RefCount(S) == Cardinality({i \in 1 .. Len(ref_alleles) : ref_alleles[i] \in S})

\* C11: the reference alleles generated for an uncalled region are, with
\* positional ref-calls, exactly one single-position allele for every position
\* no variant call covers; with blocked ref-calls, exactly one allele for every
\* maximal stretch no variant call covers, no two of the alleles adjacent or
\* overlapping; with no ref-calls, none.
C11_ReferenceAlleles ==
    ref_pc = "done" =>
        CASE ref_type = "None" -> ref_alleles = <<>>
          [] ref_type = "Positional" ->
                \A x \in RefUncovered :
                    /\ RefCount({<<x, x + 1, 0>>}) = 1
                    /\ RefCount({a \in SeqToSet(ref_alleles) : a[1] <= x /\ x < a[2]}) = 1
          [] ref_type = "Blocked" ->
                /\ \A b \in RefIntervals : RefCount({b}) = 1
                /\ \A i, j \in 1 .. Len(ref_alleles) :
                        i # j => /\ ~overlaps(AlleleRegion(ref_alleles[i]),
                                              AlleleRegion(ref_alleles[j]))
                                 /\ ~are_adjacent(AlleleRegion(ref_alleles[i]),
                                                  AlleleRegion(ref_alleles[j]))
\* blocked reference alleles on either side of a variant call
C11_Witness ==
    /\ ref_pc = "done"
    /\ ref_type = "Blocked"
    /\ ref_called # {}
    /\ Len(ref_alleles) >= 2

\* C12: in every record the genotype of a sample is written phased ('|')
\* exactly when the call carries phase information for the sample, and
\* unphased ('/') otherwise.
C12_PhasedIffPhaseInfo ==
    factory_pc = "made" =>
        \A r \in Records : \A s \in Samples :
            /\ r.phasing[s] \in {"|", "/"}
            /\ r.phasing[s] = "|" <=> is_phased(r.calls[1].phase, s)

\* a record of a call that has no phase information
C12_Witness ==
    /\ factory_pc = "made"
    /\ \E r \in Records : \E s \in Samples : ~is_phased(r.calls[1].phase, s)

\* C13: a record that is not sites-only has the FORMAT keys GT,GQ,DP,BQ,MQ,
\* followed by PS,PQ exactly when the record is phased, and every sample has a
\* value for exactly the keys FORMAT declares.
C13_FormatKeys ==
    fmt_pc = "done" /\ ~sites_only =>
        /\ fmt_record.format =
               <<"GT", "GQ", "DP", "BQ", "MQ">> \o
               (IF \E s \in DOMAIN fmt_phase : is_phased(fmt_phase, s)
                THEN <<"PS", "PQ">> ELSE <<>>)
        /\ \A s \in DOMAIN fmt_phase :
               fmt_record.samples[s] = SeqToSet(fmt_record.format)

\* a record of a call that has phase information for some samples only
C13_Witness ==
    /\ fmt_pc = "done"
    /\ ~sites_only
    /\ \E s, t \in DOMAIN fmt_phase : is_phased(fmt_phase, s) /\ ~is_phased(fmt_phase, t)

\* the qualities of the calls a record represents
RecordQualities(r) == {r.calls[k].quality : k \in 1 .. Len(r.calls)}
\* qual is the score q (in thousandths) rounded to two decimals, at most 5000
IsQualOf(qual, q) ==
    /\ qual % 10 = 0
    /\ qual <= 5000000
    /\ IF q >= 5000000 THEN qual = 5000000 ELSE qual - q \in -5 .. 5

\* C14 as stated: QUAL of a record is the highest quality among the calls the
\* record represents, rounded to two decimals and capped at 5000.
C14_QualIsHighest ==
    factory_pc = "made" =>
        \A r \in Records : IsQualOf(r.qual, SetMax(RecordQualities(r)))

\* C14 amended: QUAL of a record is the lowest quality among the calls the
\* record represents, rounded to two decimals and capped at 5000.
C14_QualIsLowest ==
    factory_pc = "made" =>
        \A r \in Records : IsQualOf(r.qual, SetMin(RecordQualities(r)))

\* a record merged from calls of different quality, a record at the cap and a
\* record whose quality was rounded
C14_Witness ==
    /\ factory_pc = "made"
    /\ \E r \in Records : Cardinality(RecordQualities(r)) > 1
    /\ \E r \in Records : r.qual = 5000000 /\ SetMin(RecordQualities(r)) > 5000000
    /\ \E r \in Records : r.qual \notin RecordQualities(r) /\ r.qual < 5000000

\* C15: with the same candidates and the same latents, every variant call made
\* by TrioCaller::call_variants with a minimum variant posterior is also made
\* with any lower minimum variant posterior.
C15_MonotonePosteriors ==
    tc_pc = "called_again" => tc_calls \subseteq tc_calls_lower

\* the lower threshold calls an allele the higher one did not
C15_Witness ==
    /\ tc_pc = "called_again"
    /\ tc_calls # {}
    /\ call_alleles(trio_posteriors, min_variant_posterior)
           # call_alleles(trio_posteriors, lower_variant_posterior)


\* the calls of a list that touch an insertion call of the list and have, for
\* some sample, an allele no longer than the sequence inserted at the same
\* genotype position
ShortAlleles(cs) ==
    {t \in (DOMAIN cs) \X (DOMAIN cs) \X Samples \X (1 .. Ploidy) :
        /\ is_empty(cs[t[1]].region)
        /\ cs[t[2]].region # cs[t[1]].region
        /\ \/ are_adjacent(cs[t[2]].region, cs[t[1]].region)
           \/ overlaps(cs[t[2]].region, cs[t[1]].region)
        /\ Len(cs[t[1]].genotype[t[3]][t[4]]) > 0
        /\ Len(cs[t[2]].genotype[t[3]][t[4]]) <= Len(cs[t[1]].genotype[t[3]][t[4]])}

C17_CancelDiscardsRecords ==
    pc = "done" /\ cancel_requested => result = <<>>

C17_Witness ==
    pc = "done" /\ cancel_requested /\ result # <<>>

\* C18: main() returns 2 whenever option parsing fails, and then no run was
\* started; it returns 1 whenever the run ended with an error; it returns 0
\* only when the run finished.
C18_ExitCodes ==
    main_pc = "exit" =>
        /\ ~options.parsed => exit_code = 2 /\ run_outcome = "not started"
        /\ run_outcome \in {"std::exception", "unknown error"} => exit_code = 1
        /\ exit_code = 0 => run_outcome = "finished"

C18_Witness ==
    /\ main_pc = "exit"
    /\ ~options.parsed
    /\ "reads" \notin argv.given /\ "reads-file" \notin argv.given
    /\ run_outcome = "not started"
    /\ exit_code = EXIT_SUCCESS

\* C19: every Phred obtained by default construction, from a score, from an
\* error probability, by copy or by stream extraction holds a score q with
\* 0 <= q <= +infinity, and a negative score or probability is rejected with a
\* domain error and gives no object.
C19_PhredRange ==
    /\ phred_pc \in {"constructed", "copied"} =>
           /\ score_.kind # "nan"
           /\ ~Less(score_, Finite(0))
    /\ /\ phred_pc # "start"
       /\ \/ phred_input.op \in {"score", "extract"} /\ Less(phred_input.arg, Finite(0))
          \/ phred_input.op = "probability" /\ phred_input.arg.kind = "negative"
       => phred_pc = "thrown" /\ phred_thrown = "std::domain_error"

C19_Witness ==
    /\ phred_pc = "copied"
    /\ \/ phred_input.op = "default" /\ Less(score_, Finite(0))
       \/ phred_input.op = "score" /\ score_ = NaN

C22_PhasedBlockCalledOnce ==
    /\ [][pc = "phase" /\ phase_set' # NoRegion
            => /\ result' = append_calls(result,
                       remove_calls_outside_call_region(
                           VariantCalls(call_variants(
                               copy_overlapped(candidates, phase_set'), caller_latents)),
                           call_region))
               /\ generator' = GenForceForward(generator,
                                   right_overhang_region(active_region, phase_set'))]_vars
    /\ [][pc = "emit" /\ phase_set # NoRegion
            => \A k \in (Len(result) + 1) .. Len(result') :
                  \A p \in copy_overlapped(candidates, phase_set) :
                      result'[k] # <<p, p + 1, 1>>]_vars

\* a candidate of a phased block has two records after the iteration's emission
C22_Witness ==
    /\ pc = "progress"
    /\ phase_set # NoRegion
    /\ \E p \in copy_overlapped(candidates, phase_set) :
           Cardinality({k \in 1 .. Len(result) : result[k] = <<p, p + 1, 1>>}) >= 2

LowPosteriors ==
    {h \in DOMAIN haplotype_posteriors :
        haplotype_posteriors[h] + 1 <= min_haplotype_posterior_}

\* C23 as stated: in every iteration that infers latents, exactly the
\* haplotypes of posterior strictly below min_haplotype_posterior are passed to
\* generator.remove, before the next active region is asked for.
C23_RemovesBeforeTell ==
    rm_pc = "told" =>
        \E k \in DOMAIN generator_calls :
            /\ generator_calls[k] = [op |-> "remove", haplotypes |-> LowPosteriors]
            /\ \A j \in DOMAIN generator_calls :
                   generator_calls[j].op = "tell_next_active_region" => k < j

\* C23: in an iteration whose first next active region has not passed the
\* active region, exactly the haplotypes of posterior strictly below
\* min_haplotype_posterior are passed to generator.remove, once, and the next
\* active region is asked for again after that; no haplotype at or above the
\* threshold is removed, and nothing is removed in an iteration whose next
\* active region has passed.
C23_RemovesLowPosteriors ==
    rm_pc = "told" =>
        LET removes == {k \in DOMAIN generator_calls : generator_calls[k].op = "remove"}
        IN /\ \A k \in removes :
                  /\ generator_calls[k].haplotypes = LowPosteriors
                  /\ k < Len(generator_calls)
                  /\ generator_calls[Len(generator_calls)].op = "tell_next_active_region"
           /\ Cardinality(removes) = IF next_has_passed THEN 0 ELSE 1

C23_Witness ==
    /\ rm_pc = "told"
    /\ ~next_has_passed
    /\ \E h \in DOMAIN haplotype_posteriors :
           haplotype_posteriors[h] = min_haplotype_posterior_
    /\ LowPosteriors # {}
    /\ generator_calls[2] = [op |-> "remove", haplotypes |-> LowPosteriors]

\* C24: when the loop ends, every candidate of the call region that lay in an
\* active region for which latents were inferred has been covered by an
\* emission: none is left waiting for a next active region that never came.
C24_NothingLeftPending ==
    pc = "done" => pending = {}

\* the loop was left with a candidate of an inferred step never emitted
C24_Witness ==
    pc = "done" /\ pending # {} /\ pending \cap caller_latents.called = {}

\* the posteriors of a failed inference: no haplotype has any mass
DegeneratePosteriors ==
    \A h \in DOMAIN haplotype_posteriors : haplotype_posteriors[h] = 0

\* C25: when latent inference fails numerically, so that the posteriors are
\* degenerate, the step is given up with clear_progress(): no haplotype is
\* removed and no next active region is asked for from these latents.
C25_FailedInferenceAborts ==
    rm_pc = "told" /\ DegeneratePosteriors =>
        generator_calls = <<[op |-> "clear_progress", haplotypes |-> {}]>>

C25_Witness ==
    /\ rm_pc = "told"
    /\ DegeneratePosteriors
    /\ ~next_has_passed
    /\ generator_calls[2] = [op |-> "remove",
                             haplotypes |-> DOMAIN haplotype_posteriors]


\* ---------------------------------------------------------------------
\* Spanning deletions in a block of overlapping calls (lines 301-328, 345-440)

\* the region of an emitted record
RecordRegion(r) == Region(r.pos - 1, r.pos - 1 + Len(r.ref))

AllStars(a) == a # <<>> /\ \A k \in 1 .. Len(a) : a[k] = "*"

\* the allele of record r at genotype position i of sample s is a deletion
CarriesDeletion(r, s, i) ==
    LET a == r.genotype[s][i]
    IN Len(a) < Len(r.ref) /\ ~HasBase(a, "*") /\ ~HasBase(a, ".")

\* C26: in a block of overlapping calls, a genotype position whose allele in
\* an earlier-beginning call is a deletion spanning a later nested call is
\* emitted as '*' in the nested call, and a genotype position that no
\* earlier-beginning deletion covers is never emitted as '*'
C26_SpanningDeletionSentinel ==
    factory_pc = "made" =>
        /\ \A r1, r2 \in Records : \A s \in Samples, i \in 1 .. Ploidy :
               /\ Begin(RecordRegion(r1)) < Begin(RecordRegion(r2))
               /\ End(RecordRegion(r2)) <= End(RecordRegion(r1))
               /\ CarriesDeletion(r1, s, i)
               /\ Begin(RecordRegion(r1)) + Len(r1.genotype[s][i])
                      <= Begin(RecordRegion(r2))
               => AllStars(r2.genotype[s][i])
        /\ \A r2 \in Records : \A s \in Samples, i \in 1 .. Ploidy :
               HasBase(r2.genotype[s][i], "*") =>
                   \E r1 \in Records :
                       /\ Begin(RecordRegion(r1)) < Begin(RecordRegion(r2))
                       /\ overlaps(RecordRegion(r1), RecordRegion(r2))
                       /\ CarriesDeletion(r1, s, i)

\* a heterozygous deletion with a phased call nested in it: the nested call
\* is emitted as '*' at the genotype position that carries the reference
C26_Witness ==
    /\ factory_pc = "made"
    /\ factory_error = NoError
    /\ \E r1, r2 \in Records : \E s \in Samples, i, j \in 1 .. Ploidy :
           /\ Begin(RecordRegion(r1)) < Begin(RecordRegion(r2))
           /\ End(RecordRegion(r2)) <= End(RecordRegion(r1))
           /\ CarriesDeletion(r1, s, j)
           /\ r1.genotype[s][i] = r1.ref
           /\ AllStars(r2.genotype[s][i])

\* ---------------------------------------------------------------------
\* Boundary insertions and the left flank (variant_caller.cpp lines 196-232)

\* the flanks were computed, the leftmost active candidate is an insertion on
\* the left boundary of the active region and the haplotypes overhang it
BoundaryInsertionCase ==
    /\ flank_pc = "done"
    /\ is_empty(leftmost_mappable(flanks.active_candidates))
    /\ Begin(leftmost_mappable(flanks.active_candidates)) = Begin(flank_active_region)
    /\ ~is_empty(left_overhang_region(flank_haplotype_region, flank_active_region))

\* the candidates are classified against the left overhang less its last position
LeftFlankShrunk ==
    flanks.lhs_inactive_candidates =
        region_range(flank_candidates,
                     expand_rhs(left_overhang_region(flank_haplotype_region,
                                                     flank_active_region), -1))

IsActive(c) ==
    \E k \in 1 .. Len(flanks.active_candidates) : flanks.active_candidates[k] = c

IsInactive(c) ==
    \/ \E k \in 1 .. Len(flanks.lhs_inactive_candidates) :
           flanks.lhs_inactive_candidates[k] = c
    \/ \E k \in 1 .. Len(flanks.rhs_inactive_candidates) :
           flanks.rhs_inactive_candidates[k] = c

\* C27: when the leftmost active candidate is an insertion on the left boundary
\* of the active region and the left flank is not empty, the left flank is
\* shrunk by one position and the boundary insertion is classified as
\* inactive, so that it is in exactly one of the active and inactive sets
C27_BoundaryInsertionStaysInactive ==
    BoundaryInsertionCase =>
        /\ LeftFlankShrunk
        /\ IsInactive(leftmost_mappable(flanks.active_candidates))
        /\ IsActive(leftmost_mappable(flanks.active_candidates))
               # IsInactive(leftmost_mappable(flanks.active_candidates))

\* C27, as the code has it: the left flank is shrunk by one position and the
\* boundary insertion is then active only: it is in the active candidates and
\* in neither range of inactive candidates
C27_BoundaryInsertionActiveOnly ==
    BoundaryInsertionCase =>
        /\ LeftFlankShrunk
        /\ IsActive(leftmost_mappable(flanks.active_candidates))
        /\ ~IsInactive(leftmost_mappable(flanks.active_candidates))

\* a boundary insertion with another candidate left in the shrunk flank
C27_Witness ==
    /\ BoundaryInsertionCase
    /\ flanks.lhs_inactive_candidates # <<>>
    /\ ~IsInactive(leftmost_mappable(flanks.active_candidates))

\* ---------------------------------------------------------------------
\* The sampling loop of the downsampler (downsampler.cpp lines 147-169)

\* how many times the read is in the sequence
CountRead(rs, r) == Cardinality({k \in 1 .. Len(rs) : rs[k] = r})

NumUnsampled == last_unsampled - first_unsampled

\* C28: for every read range taken from a target region and every target
\* coverage the sampling loop ends within as many iterations as there are
\* reads: while a position still requires coverage, every position that can be
\* drawn has an unsampled read over it, and each iteration moves exactly one
\* read out of the unsampled partition, the reads staying the same reads
C28_SamplingLoopTerminates ==
    /\ [](ds_pc # "undefined")
    /\ [](ds_pc = "sampling" =>
            /\ num_iterations + NumUnsampled = Len(sample_reads)
            /\ NumUnsampled >= 0
            /\ \A k \in 1 .. Len(required_coverage) :
                   required_coverage[k] > 0 =>
                       sample_candidates(sample_reads, first_unsampled, last_unsampled,
                                         targets[target_index], k) # {})
    /\ [][ds_pc = "sampling" /\ ds_pc' = "sampling" =>
            /\ num_iterations' = num_iterations + 1
            /\ NumUnsampled' = NumUnsampled - 1
            /\ \/ first_unsampled' = first_unsampled + 1 /\ last_unsampled' = last_unsampled
               \/ first_unsampled' = first_unsampled /\ last_unsampled' = last_unsampled - 1
            /\ \A r \in ReadRegions :
                   CountRead(sample_reads', r) = CountRead(sample_reads, r)]_vars

\* the loop has run once and a position still requires coverage
C28_Witness ==
    /\ ds_pc = "sampling"
    /\ num_iterations >= 1
    /\ ~has_minimum_coverage(required_coverage)
    /\ NumUnsampled >= 2

\* ---------------------------------------------------------------------
\* What Downsampler::downsample retains (downsampler.cpp lines 194-245)

TargetRegions == {targets[k] : k \in 1 .. Len(targets)}

\* the number of reads over position q
Depth(rs, q) == Cardinality({j \in 1 .. Len(rs) : overlaps(rs[j], Region(q, q + 1))})

InNoTarget(r) == \A t \in TargetRegions : ~contains(t, r)

\* C29: after downsample() the retained reads are a sub-multiset of the input
\* reads, every read that no target region contains is kept, and every
\* position of a target region is covered by at least the smaller of its
\* original coverage and the target coverage
C29_DownsampleRetains ==
    ds_pc = "done" =>
        /\ \A r \in ReadRegions : CountRead(reads, r) <= CountRead(input_reads, r)
        /\ \A r \in ReadRegions :
               InNoTarget(r) => CountRead(reads, r) = CountRead(input_reads, r)
        /\ \A t \in TargetRegions : \A q \in Begin(t) .. (End(t) - 1) :
               Depth(reads, q) >= IntMin(Depth(input_reads, q), target_coverage_)

\* a read that reaches beyond its target region was dropped, and with it the
\* only coverage of a position outside the target
C29_Witness ==
    /\ ds_pc = "done"
    /\ \E r \in ReadRegions :
           /\ InNoTarget(r)
           /\ CountRead(reads, r) < CountRead(input_reads, r)
           /\ \E q \in Begin(r) .. (End(r) - 1) :
                  Depth(input_reads, q) > 0 /\ Depth(reads, q) = 0

\* ---------------------------------------------------------------------
\* The trio that call_trio returns (trio_caller.cpp lines 825-864)

ViableTrios ==
    {k \in 1 .. Len(trio_posteriors) :
        is_viable_genotype_call(trio_posteriors[k], ct_germline_calls, ct_denovo_calls)}

\* C30: whenever some trio of the posteriors is viable, call_trio returns a
\* viable trio, and one of the highest probability among the viable ones; a
\* trio that is not viable is returned only when none is viable.  This also
\* when several trios have the highest probability.
C30_CallTrioReturnsBestViable ==
    tc_pc = "trio_called" /\ ViableTrios # {} =>
        /\ is_viable_genotype_call(called_trio, ct_germline_calls, ct_denovo_calls)
        /\ \A k \in ViableTrios : trio_posteriors[k].probability <= called_trio.probability

\* the most probable trios are tied, the first of them is not viable, another
\* of them is, and call_trio returned a trio that is not the viable one
C30_Witness ==
    /\ tc_pc = "trio_called"
    /\ \E j, k \in 1 .. Len(trio_posteriors) :
           /\ j < k
           /\ trio_posteriors[j].probability = trio_posteriors[k].probability
           /\ \A i \in 1 .. Len(trio_posteriors) :
                  trio_posteriors[i].probability <= trio_posteriors[j].probability
           /\ j \notin ViableTrios
           /\ k \in ViableTrios
           /\ called_trio # trio_posteriors[k]


====
